---- MODULE Spec2Model ----
(***************************************************************************)
(* Model of the FaceMesh3D component (src/unnamed/part_000, lines 1-716).  *)
(*                                                                         *)
(* The component runs two effects on mount:                                *)
(*   - the render effect (lines 58-410): init(), the detection/render loop *)
(*     and the unmount cleanup;                                            *)
(*   - the gaze effect (lines 448-520): loads the gaze predictor, installs *)
(*     the gaze listener and cleans up on unmount.                         *)
(*                                                                         *)
(* Time is performance.now() in integer milliseconds.  Gaze coordinates    *)
(* are fixed-point numbers counted in 1/Sub of a pixel, so that            *)
(* Math.round is a real conversion.                                        *)
(*                                                                         *)
(* The root App with the survey flow (lines 1169-1225) keeps the view, the *)
(* running session, the past sessions and the survey results.              *)
(***************************************************************************)
EXTENDS Integers, Sequences, FiniteSets, TLC

(* ------------------------------ bounds --------------------------------- *)

\* the clock stops advancing at MaxClock (milliseconds)
MaxClock == 300

\* gaze coordinates are counted in 1/Sub pixel
Sub == 2

\* in the runs of the render effect the clock stops advancing here
MaxRenderClock == 1002

\* the loop is entered at most MaxTicks times
MaxTicks == 4

\* the number of calibration points the user has begun and not finished
MaxBegun == 1

(* ------------------------- program constants --------------------------- *)

OFFSCREEN_DELAY_MS == 250

margin == 40

CONNECT_K == 2

LINES_UPDATE_EVERY_N_FRAMES == 2

DEPTH_SCALE == 50

CALIBRATION_PER_POINT == 5

\* the indices of CALIB_POINTS and of calibrationCounts, counted from 1
CALIB_POINTS == 1..9

(* ------------------------------ state ---------------------------------- *)

VARIABLES
    clock,            \* performance.now()
    \* gaze effect
    gazePc,           \* position of the loadScript().then(...).catch(...) chain
    cancelled,        \* let cancelled (line 449)
    windowWebgazer,   \* window.webgazer is defined
    webgazerRef,      \* webgazerRef.current is set
    wgListener,       \* predictor: a gaze listener is installed
    wgRunning,        \* predictor: begin() called and end() not yet
    wgMouse,          \* predictor: mouse-event sample collection enabled
    wgShowPoints,     \* predictor: prediction points displayed
    lastOnScreenAt,   \* let lastOnScreenAt (line 479)
    offScreen,        \* useState offScreen (line 33)
    gazeXY,           \* useState gazeXY (line 34)
    now,              \* const now (line 501) of the latest processed sample
    trail,            \* history: the latest processed samples, oldest first
    \* render effect
    isMounted,        \* let isMounted (line 65)
    initPc,           \* the await at which init() is suspended, or how it ended
    status,           \* useState status (line 30)
    tried,            \* history: the model options attempted, in order
    stream,           \* the camera stream of getUserMedia: none, live, stopped
    srcObject,        \* videoRef.current.srcObject is the stream
    modelRef,         \* modelRef.current is set
    apiRef,           \* apiRef.current
    renderer,         \* rendererRef.current: none, live, disposed
    sceneRef,         \* sceneRef.current is set
    cameraRef,        \* cameraRef.current is set
    resizeListener,   \* handleResize is registered on window
    loopPc,           \* where loop() is: idle, detecting, scheduled, cancelled, rejected
    ticks,            \* history: the number of times loop() was entered
    facesCount,       \* useState facesCount (line 31)
    pointsRef,        \* pointsRef.current and its position array
    linesRef,         \* linesRef.current and its position array
    lineFrameCounter, \* let lineFrameCounter (line 292)
    frames,           \* let frames (line 290)
    lastTime,         \* let lastTime (line 289)
    lastFpsUpdate,    \* let lastFpsUpdate (line 291)
    fps,              \* useState fps (line 32)
    drew,             \* history: the latest loop() run issued renderer.render
    inFlight,         \* history: estimateFaces calls issued and not yet settled
    rebuilt,          \* history: the latest loop() run rebuilt the line buffer
    allocs,           \* history: position arrays the latest loop() run allocated
    updates,          \* history: the number of point-buffer updates so far
    lastCount,        \* history: points.length of the latest buffer update
    prevCount,        \* history: points.length of the update before that one
    \* calibration
    calibrating,      \* useState calibrating (line 39)
    calibrationCounts,\* useState calibrationCounts (line 46)
    showGazeDot,      \* useState showGazeDot (line 37)
    wgTrained,        \* predictor: it holds trained samples
    \* the neighbour search on its own
    knnPts,           \* const pts (line 299)
    knnDone,          \* lines 304-330 have run on knnPts
    knnBest,          \* const best (line 308) of each point, by index
    knnEdges,         \* const edges (line 305) after the search
    \* both effects
    sampledInFlight,  \* history: a gaze sample was processed during the pending
                      \* detection call
    \* toDisplayPoints on its own
    tdpArgs,          \* the points passed, and what the container and video report
    tdpResult,        \* what the call returned, once it has
    \* the root App (lines 1169-1225)
    view,             \* useState view (line 1170)
    userName,         \* useState userName (line 1171)
    currentConfig,    \* useState currentConfig (line 1172)
    pastSessions,     \* useState pastSessions (line 1173)
    backgroundMuted,  \* useState backgroundMuted (line 1174)
    lastCompleted,    \* useState lastCompleted (line 1175)
    surveyResults     \* useState surveyResults (line 1176)

gazeVars == <<gazePc, cancelled, windowWebgazer, webgazerRef, wgListener,
              wgRunning, wgMouse, wgShowPoints, lastOnScreenAt, offScreen,
              gazeXY, now, trail>>

initVars == <<initPc, status, tried, stream, srcObject,
              modelRef, apiRef, renderer, sceneRef, cameraRef, resizeListener>>

loopHist == <<inFlight, rebuilt, allocs, updates, lastCount, prevCount>>

loopVars == <<loopPc, ticks, facesCount, pointsRef, linesRef, lineFrameCounter,
              frames, lastTime, lastFpsUpdate, fps, drew, loopHist>>

renderVars == <<isMounted, initVars, loopVars>>

calibVars == <<calibrating, calibrationCounts, showGazeDot, wgTrained>>

knnVars == <<knnPts, knnDone, knnBest, knnEdges>>

tdpVars == <<tdpArgs, tdpResult>>

appVars == <<view, userName, currentConfig, pastSessions, backgroundMuted,
             lastCompleted, surveyResults>>

otherVars == <<calibVars, knnVars, sampledInFlight, tdpVars, appVars>>

vars == <<clock, gazeVars, renderVars, otherVars>>

(* --------------------------- JavaScript values ------------------------- *)

\* a JS value as the listener sees it: its typeof, whether it is NaN, and
\* its magnitude in 1/Sub pixel
Num(v) == [type |-> "number", nan |-> FALSE, v |-> v]

NaNValue == [type |-> "number", nan |-> TRUE, v |-> 0]

Undefined == [type |-> "undefined", nan |-> FALSE, v |-> 0]

\* the argument of the listener: null, or an object with fields x and y
NullData == [isNull |-> TRUE, x |-> Undefined, y |-> Undefined]

Data(x, y) == [isNull |-> FALSE, x |-> x, y |-> y]

\* Math.round of a fixed-point value: the nearest integer pixel, halves
\* towards +infinity; NaN stays NaN
MathRound(val) ==
    [nan |-> val.nan, v |-> (2 * val.v + Sub) \div (2 * Sub)]

\* a >= b and a <= b of a JS number against a pixel count; false for NaN
Ge(val, px) == ~val.nan /\ val.v >= px * Sub

\* mutant: a <= b is taken for a < b
Le_Strict(val, px) == ~val.nan /\ val.v < px * Sub

Le(val, px) == ~val.nan /\ val.v <= px * Sub

NullXY == [isNull |-> TRUE, x |-> [nan |-> FALSE, v |-> 0],
                            y |-> [nan |-> FALSE, v |-> 0]]

(* ------------------------- gaze listener logic ------------------------- *)

\* a || b on numbers: a unless it is 0
OrElse(a, b) == IF a # 0 THEN a ELSE b

\* const W (line 485) and const H (line 486)
ViewportW(vp) == OrElse(vp.innerWidth, OrElse(vp.clientWidth, 0))

ViewportH(vp) == OrElse(vp.innerHeight, OrElse(vp.clientHeight, 0))

\* const valid (line 488)
Valid(data) ==
    ~data.isNull /\ data.x.type = "number" /\ data.y.type = "number"

\* const inside (line 493)
Inside(data, vp) ==
    /\ Ge(data.x, -margin)
    /\ Le(data.x, ViewportW(vp) + margin)
    /\ Ge(data.y, -margin)
    /\ Le(data.y, ViewportH(vp) + margin)

\* mutant: the position is cleared only when the sample object is null
GazeXYAfter_NullOnly(data) ==
    IF ~data.isNull
    THEN [isNull |-> FALSE, x |-> MathRound(data.x), y |-> MathRound(data.y)]
    ELSE NullXY

\* the argument of setGazeXY (lines 492 and 499)
GazeXYAfter(data) ==
    IF Valid(data)
    THEN [isNull |-> FALSE, x |-> MathRound(data.x), y |-> MathRound(data.y)]
    ELSE NullXY

\* mutant: every valid sample counts as on-screen
LastOnScreenAfter_AnyValid(data, vp, last, r1) ==
    IF Valid(data) THEN r1 ELSE last

\* mutant: a missing prediction resets the timer too
LastOnScreenAfter_ResetOnInvalid(data, vp, last, r1) ==
    IF ~Valid(data) \/ Inside(data, vp) THEN r1 ELSE last

\* lastOnScreenAt after lines 489-500; r1 is performance.now() of line 496
LastOnScreenAfter(data, vp, last, r1) ==
    IF Valid(data) /\ Inside(data, vp) THEN r1 ELSE last

\* mutant: the delay is reached, not exceeded
OffScreenAt_Ge(n, last) == n - last >= OFFSCREEN_DELAY_MS

\* mutant: the delay is left out of the comparison
OffScreenAt_NoDelay(n, last) == n - last > 0

\* the argument of setOffScreen (line 502)
OffScreenAt(n, last) == n - last > OFFSCREEN_DELAY_MS

\* history only: how the listener classified the sample
Kind(data, vp) ==
    IF ~Valid(data) THEN "invalid"
    ELSE IF Inside(data, vp) THEN "inside" ELSE "outside"

\* history only: keep the three latest entries
Push(tr, e) == IF Len(tr) < 3 THEN Append(tr, e) ELSE Append(Tail(tr), e)

(* ----------------------- toDisplayPoints (210-225) ---------------------- *)

\* a call of toDisplayPoints: the points passed, whether containerRef.current
\* and videoRef.current are set, the container's getBoundingClientRect() and
\* clientWidth, and the video's videoWidth and videoHeight
NoArgs == [points |-> << >>, container |-> FALSE, video |-> FALSE,
           rectWidth |-> 0, rectHeight |-> 0, clientWidth |-> 0,
           videoWidth |-> 0, videoHeight |-> 0]

\* null, as the value of currentConfig and of lastCompleted (lines 1172,
\* 1175)
NullConfig == [null |-> TRUE]

\* tdpResult before the call
NotCalled == [called |-> FALSE, same |-> FALSE, pts |-> << >>]

\* const cw (line 215)
DisplayW(a) == OrElse(OrElse(a.rectWidth, a.clientWidth), 640)

\* const ch (line 216); Math.floor on a non-negative integer quotient
DisplayH(a) == OrElse(a.rectHeight, (DisplayW(a) * 3) \div 4)

\* mutant: a video without metadata is taken to be 640 x 480
VideoDim_Fixed(reported, display) == OrElse(reported, 640)

\* const vw (line 217) and const vh (line 218)
VideoDim(reported, display) == OrElse(reported, display)

VideoW(a) == VideoDim(a.videoWidth, DisplayW(a))

VideoH(a) == VideoDim(a.videoHeight, DisplayH(a))

\* mutant: the smaller of the two quotients, which fits the frame inside
ScaleOf_Contain(a) ==
    IF DisplayW(a) * VideoH(a) <= DisplayH(a) * VideoW(a)
    THEN [n |-> DisplayW(a), d |-> VideoW(a)]
    ELSE [n |-> DisplayH(a), d |-> VideoH(a)]

\* const s (line 219), Math.max of the two quotients, as the fraction n / d
ScaleOf(a) ==
    IF DisplayW(a) * VideoH(a) >= DisplayH(a) * VideoW(a)
    THEN [n |-> DisplayW(a), d |-> VideoW(a)]
    ELSE [n |-> DisplayH(a), d |-> VideoH(a)]

\* const dx (line 220) and const dy (line 221), as fractions over 2 * s.d
OffsetX(a) == [n |-> DisplayW(a) * ScaleOf(a).d - VideoW(a) * ScaleOf(a).n,
               d |-> 2 * ScaleOf(a).d]

OffsetY(a) == [n |-> DisplayH(a) * ScaleOf(a).d - VideoH(a) * ScaleOf(a).n,
               d |-> 2 * ScaleOf(a).d]

\* v * s + offset (line 224), as a fraction over offset.d
Scaled(v, s, offset) == [n |-> 2 * v * s.n + offset.n, d |-> offset.d]

\* The fractions above are the real values of the expressions.  JavaScript
\* evaluates them in binary64: the quotient c / v of line 219 is rounded to
\* 53 significant bits, and so is its product with v in lines 220-221.

\* the number of bits of the positive integer n
RECURSIVE BitLen(_)
BitLen(n) == IF n = 0 THEN 0 ELSE 1 + BitLen(n \div 2)

RECURSIVE Pow2(_)
Pow2(k) == IF k = 0 THEN 1 ELSE 2 * Pow2(k - 1)

\* 2^e modulo m
RECURSIVE Pow2Mod(_, _)
Pow2Mod(e, m) == IF e = 0 THEN 1 % m ELSE (2 * Pow2Mod(e - 1, m)) % m

\* the exponent e for which the binary64 quotient c / v is M / 2^e with
\* 2^52 <= M < 2^53 (line 219)
QuotientExp(c, v) ==
    LET a == BitLen(c)
        b == BitLen(v)
        ge == IF b >= a THEN c * Pow2(b - a) >= v ELSE c >= v * Pow2(a - b)
    IN  (IF ge THEN 52 ELSE 53) - a + b

\* v * M - c * 2^e for the M of the binary64 quotient c / v: the remainder
\* of c * 2^e by v, rounded to the nearest, a tie to the even M (line 219)
QuotientError(c, v) ==
    LET e == QuotientExp(c, v)
        r0 == (c * Pow2Mod(e, v)) % v
        odd == (c * Pow2Mod(e, 2 * v)) % (2 * v) >= v
    IN  IF r0 = 0 THEN 0
        ELSE IF 2 * r0 > v \/ (2 * r0 = v /\ odd) THEN v - r0 ELSE -r0

\* v * (c / v) - c in binary64, as m / 2^e: the product v * M is rounded to
\* 53 bits, that is to a multiple of 2^k, k = e + BitLen(c) - 53, or of
\* half of it when the product is below the power of two c (vw * s in
\* line 220 when s is cw / vw, vh * s in line 221 when s is ch / vh)
RoundTrip(c, v) ==
    LET e == QuotientExp(c, v)
        d == QuotientError(c, v)
        k == e + BitLen(c) - 53
        grid2 == IF d < 0 /\ c = Pow2(BitLen(c) - 1)
                 THEN Pow2(k) ELSE Pow2(k + 1)
        abs2 == IF d < 0 THEN -2 * d ELSE 2 * d
        q == abs2 \div grid2
        rem == abs2 % grid2
        steps == IF 2 * rem > grid2 \/ (2 * rem = grid2 /\ q % 2 = 1)
                 THEN q + 1 ELSE q
    IN  [m |-> IF d < 0 THEN -(steps * grid2) ELSE steps * grid2,
         e |-> e + 1]

\* s is the quotient cw / vw, or the quotient ch / vh (line 219; both when
\* they are equal)
ScaleIsX(a) == ScaleOf(a).n * VideoW(a) = DisplayW(a) * ScaleOf(a).d

ScaleIsY(a) == ScaleOf(a).n * VideoH(a) = DisplayH(a) * ScaleOf(a).d

\* the sign of dx and of dy in binary64 (lines 220-221): in the dimension s
\* is the quotient of, the difference is what the round trip leaves; in the
\* other one it is far from 0 and keeps the sign of its real value
SignOf(n) == IF n > 0 THEN 1 ELSE IF n < 0 THEN -1 ELSE 0

OffsetXSign(a) ==
    IF ScaleIsX(a) THEN -SignOf(RoundTrip(DisplayW(a), VideoW(a)).m)
    ELSE SignOf(OffsetX(a).n)

OffsetYSign(a) ==
    IF ScaleIsY(a) THEN -SignOf(RoundTrip(DisplayH(a), VideoH(a)).m)
    ELSE SignOf(OffsetY(a).n)

\* what toDisplayPoints returns: the array passed itself (same), or a new
\* array of the mapped points, x and y as fractions
toDisplayPoints(a) ==
    IF ~a.container \/ ~a.video \/ Len(a.points) = 0
    THEN [called |-> TRUE, same |-> TRUE, pts |-> a.points]
    ELSE [called |-> TRUE, same |-> FALSE,
          pts |-> [k \in 1..Len(a.points) |->
                      <<Scaled(a.points[k][1], ScaleOf(a), OffsetX(a)),
                        Scaled(a.points[k][2], ScaleOf(a), OffsetY(a)),
                        OrElse(a.points[k][3], 0)>>]]

(* ------------------------ geometry of a frame -------------------------- *)

\* a geometry handle (pointsRef.current, linesRef.current): null, or an
\* object whose position attribute holds the array
NullRef == [set |-> FALSE, array |-> << >>]

Ref(arr) == [set |-> TRUE, array |-> arr]

\* a display point is <<x, y, z>>; a position array is a sequence of numbers

\* RECURSIVE helpers walk arrays front to back, as the for-loops do
RECURSIVE PositionsOf(_)

\* the values the loop of lines 276-284 writes for the points pts
PositionsOf(pts) ==
    IF pts = << >> THEN << >>
    ELSE <<pts[1][1], pts[1][2], -(pts[1][3]) * DEPTH_SCALE>>
         \o PositionsOf(Tail(pts))

\* new Float32Array(n)
Float32Array(n) == [k \in 1..n |-> 0]

\* the writes of lines 275-284 to a typed array: one past its end is ignored
WritePositions(array, pts) ==
    [k \in 1..Len(array) |->
        IF k <= Len(pts) * 3 THEN PositionsOf(pts)[k] ELSE array[k]]

\* mutant: the position array is replaced only when it is too short
NeedsRealloc_OnlyGrow(array, pts) == Len(array) < Len(pts) * 3

\* the position array has to be replaced (line 267)
NeedsRealloc(array, pts) == Len(array) # Len(pts) * 3

\* mutant: the point buffer is written only on the ticks that recompute
\* the edges
UpdateGeometry_WithLinesOnly(ref, pts) ==
    LET created == IF ref.set THEN ref.array ELSE Float32Array(Len(pts) * 3)
        array   == IF NeedsRealloc(created, pts)
                   THEN Float32Array(Len(pts) * 3) ELSE created
    IN  IF lineFrameCounter % LINES_UPDATE_EVERY_N_FRAMES # 0
        THEN [ref |-> ref, allocs |-> 0]
        ELSE [ref    |-> Ref(WritePositions(array, pts)),
              allocs |-> (IF ref.set THEN 0 ELSE 1)
                             + (IF NeedsRealloc(created, pts) THEN 1 ELSE 0)]

\* mutant: every update allocates a position array of its own
UpdateGeometry_Fresh(ref, pts) ==
    [ref    |-> Ref(WritePositions(Float32Array(Len(pts) * 3), pts)),
     allocs |-> 1]

\* updateGeometry(points) past its scene guard (lines 250-286): the cloud
\* after it, and the number of position arrays it allocated
UpdateGeometry(ref, pts) ==
    LET created == IF ref.set THEN ref.array ELSE Float32Array(Len(pts) * 3)
        array   == IF NeedsRealloc(created, pts)
                   THEN Float32Array(Len(pts) * 3) ELSE created
    IN  [ref    |-> Ref(WritePositions(array, pts)),
         allocs |-> (IF ref.set THEN 0 ELSE 1)
                        + (IF NeedsRealloc(created, pts) THEN 1 ELSE 0)]

\* const d2 (lines 312-315)
Dist2(p, q) ==
    (p[1] - q[1]) * (p[1] - q[1]) + (p[2] - q[2]) * (p[2] - q[2])
        + (p[3] - q[3]) * (p[3] - q[3])

\* insert e into the ascending list sorted, after the entries that are not
\* larger (a stable sort keeps equal entries in their order)
RECURSIVE InsertSorted(_, _)

InsertSorted(sorted, e) ==
    IF sorted = << >> THEN <<e>>
    ELSE IF e[1] < sorted[1][1] THEN <<e>> \o sorted
    ELSE <<sorted[1]>> \o InsertSorted(Tail(sorted), e)

RECURSIVE SortByDistance(_)

\* best.sort((a, b) => a[0] - b[0]) (lines 318 and 321)
SortByDistance(best) ==
    IF best = << >> THEN << >>
    ELSE InsertSorted(SortByDistance(SubSeq(best, 1, Len(best) - 1)),
                      best[Len(best)])

\* mutant: a candidate as far as the worst neighbour kept replaces it
BestAfter_ReplaceOnTie(best, d2, j) ==
    IF Len(best) < CONNECT_K
    THEN SortByDistance(Append(best, <<d2, j>>))
    ELSE IF d2 <= best[CONNECT_K][1]
    THEN SortByDistance([best EXCEPT ![CONNECT_K] = <<d2, j>>])
    ELSE best

\* mutant: a candidate never replaces a neighbour that is kept
BestAfter_NoReplace(best, d2, j) ==
    IF Len(best) < CONNECT_K
    THEN SortByDistance(Append(best, <<d2, j>>))
    ELSE best

\* one iteration of the inner loop (lines 310-322) for candidate j
BestAfter(best, d2, j) ==
    IF Len(best) < CONNECT_K
    THEN SortByDistance(Append(best, <<d2, j>>))
    ELSE IF d2 < best[CONNECT_K][1]
    THEN SortByDistance([best EXCEPT ![CONNECT_K] = <<d2, j>>])
    ELSE best

RECURSIVE ScanFrom(_, _, _, _)

\* the inner loop of lines 309-323 from candidate j on
ScanFrom(pts, i, j, best) ==
    IF j > Len(pts) THEN best
    ELSE IF i = j THEN ScanFrom(pts, i, j + 1, best)
    ELSE ScanFrom(pts, i, j + 1, BestAfter(best, Dist2(pts[i], pts[j]), j))

\* let best (line 307) when the inner loop has ended for point i
BestOf(pts, i) == ScanFrom(pts, i, 1, << >>)

\* mutant: the key is i + "," + j
EdgeKey_AsFound(i, j) == <<i, j>>

\* the key a + "," + b of the edge between i and j (lines 325-327): the
\* pair of indices, the smaller first
EdgeKey(i, j) == IF i < j THEN <<i, j>> ELSE <<j, i>>

\* the keys passed to edges.add (line 327) in the order of the calls: for
\* every point i in turn, one for each neighbour kept in best
KeysAdded(pts) ==
    LET perPoint == IF Len(pts) = 0 THEN 0 ELSE Len(BestOf(pts, 1))
    IN  [k \in 1..(Len(pts) * perPoint) |->
            LET i == ((k - 1) \div perPoint) + 1
                m == ((k - 1) % perPoint) + 1
            IN  [at |-> k, key |-> EdgeKey(i, BestOf(pts, i)[m][2])]]

\* const edges (line 305) when the outer loop of lines 306-329 has ended: a
\* Set keeps every key once, in the order of the first insertion
EdgesOf(pts) ==
    LET added == KeysAdded(pts)
        first(e) == \A k \in 1..(e.at - 1) : added[k].key # e.key
        kept  == SelectSeq(added, first)
    IN  [k \in 1..Len(kept) |-> kept[k].key]

\* mutant: the array of the previous recomputation is written over when it
\* is long enough
LinePositions_Reused(pts, edges) ==
    LET used == Len(edges) * 2 * 3
        len  == IF Len(linesRef.array) > used THEN Len(linesRef.array)
                ELSE used
    IN  [k \in 1..len |->
            IF k > used THEN linesRef.array[k]
            ELSE LET edge == edges[((k - 1) \div 6) + 1]
                     p    == pts[IF (k - 1) % 6 < 3 THEN edge[1] ELSE edge[2]]
                 IN  IF (k - 1) % 3 = 2 THEN -(p[3]) * DEPTH_SCALE
                     ELSE p[((k - 1) % 3) + 1]]

\* const positions (lines 338-352): the two end points of every edge, six
\* numbers an edge in the order of the edge set
LinePositions(pts, edges) ==
    [k \in 1..(Len(edges) * 2 * 3) |->
        LET edge == edges[((k - 1) \div 6) + 1]
            p    == pts[IF (k - 1) % 6 < 3 THEN edge[1] ELSE edge[2]]
        IN  IF (k - 1) % 3 = 2 THEN -(p[3]) * DEPTH_SCALE
            ELSE p[((k - 1) % 3) + 1]]

(* ------------------------------ Init ----------------------------------- *)

\* the component right after mount: loadScript() has been called and is
\* pending, init() has been called and is suspended in getUserMedia (line 71)
Mounted ==
    /\ clock = 0
    /\ gazePc = "loading"
    /\ cancelled = FALSE
    /\ windowWebgazer \in BOOLEAN
    /\ webgazerRef = FALSE
    /\ wgListener = FALSE
    /\ wgRunning = FALSE
    /\ wgMouse = FALSE
    /\ wgShowPoints = FALSE
    /\ lastOnScreenAt = -1
    /\ offScreen = FALSE
    /\ gazeXY = NullXY
    /\ now = -1
    /\ trail = << >>
    /\ isMounted = TRUE
    /\ initPc = "getUserMedia"
    /\ status = "Requesting camera..."
    /\ tried = << >>
    /\ stream = "none"
    /\ srcObject = FALSE
    /\ modelRef = FALSE
    /\ apiRef = "none"
    /\ renderer = "none"
    /\ sceneRef = FALSE
    /\ cameraRef = FALSE
    /\ resizeListener = FALSE
    /\ loopPc = "idle"
    /\ ticks = 0
    /\ facesCount = 0
    /\ pointsRef = NullRef
    /\ linesRef = NullRef
    /\ lineFrameCounter = 0
    /\ frames = 0
    /\ lastTime = 0
    /\ lastFpsUpdate = 0
    /\ fps = 0
    /\ drew = FALSE
    /\ inFlight = 0
    /\ rebuilt = FALSE
    /\ allocs = 0
    /\ updates = 0
    /\ lastCount = 0
    /\ prevCount = 0
    /\ calibrating = FALSE
    /\ calibrationCounts = [idx \in CALIB_POINTS |-> 0]
    /\ showGazeDot = FALSE
    /\ wgTrained = FALSE
    /\ knnDone = FALSE
    /\ knnBest = << >>
    /\ knnEdges = << >>
    /\ sampledInFlight = FALSE
    /\ tdpResult = NotCalled
    /\ view = "login"
    /\ userName = ""
    /\ currentConfig = NullConfig
    /\ pastSessions = << >>
    /\ backgroundMuted = FALSE
    /\ lastCompleted = NullConfig
    /\ surveyResults = << >>

\* the state right after mount
Init == Mounted /\ knnPts = << >> /\ tdpArgs = NoArgs

(* ------------------------------ clock ---------------------------------- *)

\* time passes between two events
ClockAdvance(d, limit) ==
    /\ clock + d <= limit
    /\ clock' = clock + d
    /\ UNCHANGED <<gazeVars, renderVars, otherVars>>

(* --------------------------- gaze effect ------------------------------- *)

\* mutant: the time of the registration is not recorded
ScriptLoaded_NoStamp(wgOk) ==
    /\ gazePc = "loading"
    /\ windowWebgazer => wgOk
    /\ windowWebgazer' = wgOk
    /\ IF cancelled \/ ~wgOk
       THEN /\ gazePc' = "returned"
            /\ UNCHANGED <<webgazerRef, wgListener, wgRunning, wgShowPoints>>
       ELSE /\ gazePc' = "listening"
            /\ webgazerRef' = TRUE
            /\ wgShowPoints' = FALSE
            /\ wgListener' = TRUE
            /\ wgRunning' = TRUE
    /\ UNCHANGED <<clock, cancelled, wgMouse, lastOnScreenAt, offScreen, gazeXY,
                   now, trail>>
    /\ UNCHANGED <<renderVars, otherVars>>

\* mutant: the then-callback does not look at cancelled
ScriptLoaded_IgnoresCancel(wgOk) ==
    /\ gazePc = "loading"
    /\ windowWebgazer => wgOk
    /\ windowWebgazer' = wgOk
    /\ IF ~wgOk
       THEN /\ gazePc' = "returned"
            /\ UNCHANGED <<webgazerRef, wgListener, wgRunning, wgShowPoints,
                           lastOnScreenAt>>
       ELSE /\ gazePc' = "listening"
            /\ webgazerRef' = TRUE
            /\ wgShowPoints' = FALSE
            /\ lastOnScreenAt' = clock
            /\ wgListener' = TRUE
            /\ wgRunning' = TRUE
    /\ UNCHANGED <<clock, cancelled, wgMouse, offScreen, gazeXY, now, trail>>
    /\ UNCHANGED <<renderVars, otherVars>>

\* loadScript() resolves with window.webgazer (wgOk: it is defined) and the
\* then-callback of lines 464-504 runs
ScriptLoaded(wgOk) ==
    /\ gazePc = "loading"
    /\ windowWebgazer => wgOk
    /\ windowWebgazer' = wgOk
    /\ IF cancelled \/ ~wgOk
       THEN /\ gazePc' = "returned"
            /\ UNCHANGED <<webgazerRef, wgListener, wgRunning, wgShowPoints,
                           lastOnScreenAt>>
       ELSE /\ gazePc' = "listening"
            /\ webgazerRef' = TRUE
            /\ wgShowPoints' = FALSE
            /\ lastOnScreenAt' = clock
            /\ wgListener' = TRUE
            /\ wgRunning' = TRUE
    /\ UNCHANGED <<clock, cancelled, wgMouse, offScreen, gazeXY, now, trail>>
    /\ UNCHANGED <<renderVars, otherVars>>

\* mutant: the listener is installed although the load failed
ScriptFailed_StillListens ==
    /\ gazePc = "loading"
    /\ ~windowWebgazer
    /\ gazePc' = "failed"
    /\ wgListener' = TRUE
    /\ UNCHANGED <<clock, cancelled, windowWebgazer, webgazerRef,
                   wgRunning, wgMouse, wgShowPoints, lastOnScreenAt, offScreen,
                   gazeXY, now, trail>>
    /\ UNCHANGED <<renderVars, otherVars>>

\* the script fails to load: loadScript() rejects and the catch of lines
\* 505-507 logs it
ScriptFailed ==
    /\ gazePc = "loading"
    /\ ~windowWebgazer
    /\ gazePc' = "failed"
    /\ UNCHANGED <<clock, cancelled, windowWebgazer, webgazerRef, wgListener,
                   wgRunning, wgMouse, wgShowPoints, lastOnScreenAt, offScreen,
                   gazeXY, now, trail>>
    /\ UNCHANGED <<renderVars, otherVars>>

\* mutant: the listener runs only while no detection call is pending
GazeListener_BetweenFrames(data, vp, r1, r2) ==
    /\ gazePc = "listening"
    /\ loopPc # "detecting"
    /\ clock' = r2
    /\ IF cancelled
       THEN UNCHANGED <<lastOnScreenAt, offScreen, gazeXY, now, trail,
                        sampledInFlight>>
       ELSE /\ sampledInFlight' = (sampledInFlight \/ loopPc = "detecting")
            /\ gazeXY' = GazeXYAfter(data)
            /\ lastOnScreenAt' = LastOnScreenAfter(data, vp, lastOnScreenAt, r1)
            /\ now' = r2
            /\ offScreen' = OffScreenAt(r2, lastOnScreenAt')
            /\ trail' = Push(trail, [kind |-> Kind(data, vp), at |-> r2,
                                     off |-> offScreen'])
    /\ UNCHANGED <<gazePc, cancelled, windowWebgazer, webgazerRef, wgListener,
                   wgRunning, wgMouse, wgShowPoints>>
    /\ UNCHANGED <<renderVars, calibVars, knnVars, tdpVars, appVars>>

\* the predictor delivers a sample to the listener of lines 481-503; r1 and
\* r2 are the values performance.now() returns at lines 496 and 501
GazeListener(data, vp, r1, r2) ==
    /\ gazePc = "listening"
    /\ clock' = r2
    /\ IF cancelled
       THEN UNCHANGED <<lastOnScreenAt, offScreen, gazeXY, now, trail,
                        sampledInFlight>>
       ELSE /\ sampledInFlight' = (sampledInFlight \/ loopPc = "detecting")
            /\ gazeXY' = GazeXYAfter(data)
            /\ lastOnScreenAt' = LastOnScreenAfter(data, vp, lastOnScreenAt, r1)
            /\ now' = r2
            /\ offScreen' = OffScreenAt(r2, lastOnScreenAt')
            /\ trail' = Push(trail, [kind |-> Kind(data, vp), at |-> r2,
                                     off |-> offScreen'])
    /\ UNCHANGED <<gazePc, cancelled, windowWebgazer, webgazerRef, wgListener,
                   wgRunning, wgMouse, wgShowPoints>>
    /\ UNCHANGED <<renderVars, calibVars, knnVars, tdpVars, appVars>>

\* the cleanup of the gaze effect (lines 509-519)
GazeCleanup ==
    /\ ~cancelled
    /\ cancelled' = TRUE
    /\ IF webgazerRef \/ windowWebgazer
       THEN /\ wgListener' = FALSE
            /\ wgMouse' = FALSE
            /\ wgRunning' = FALSE
       ELSE UNCHANGED <<wgListener, wgMouse, wgRunning>>
    /\ UNCHANGED <<clock, gazePc, windowWebgazer, webgazerRef, wgShowPoints,
                   lastOnScreenAt, offScreen, gazeXY, now, trail>>
    /\ UNCHANGED <<renderVars, otherVars>>

(* ------------------------- render effect: init ------------------------- *)

\* mutant: the catch leaves the status as it is
InitCatch_Silent ==
    /\ initPc' = "error"
    /\ UNCHANGED status

\* the catch of lines 130-133
InitCatch ==
    /\ initPc' = "error"
    /\ status' = "Error"

\* getUserMedia resolves with the camera stream (lines 71-78)
CameraGranted ==
    /\ initPc = "getUserMedia"
    /\ stream' = "live"
    /\ IF ~isMounted
       THEN /\ initPc' = "returned"
            /\ UNCHANGED srcObject
       ELSE /\ srcObject' = TRUE
            /\ initPc' = "metadata"
    /\ UNCHANGED <<status, tried, modelRef, apiRef, renderer,
                   sceneRef, cameraRef, resizeListener>>
    /\ UNCHANGED <<clock, gazeVars, otherVars, isMounted, loopVars>>

\* the video reports its metadata and vid.play() is called (lines 78-79)
MetadataLoaded ==
    /\ initPc = "metadata"
    /\ srcObject
    /\ initPc' = "play"
    /\ UNCHANGED <<status, tried, stream, srcObject, modelRef,
                   apiRef, renderer, sceneRef, cameraRef, resizeListener>>
    /\ UNCHANGED <<clock, gazeVars, otherVars, isMounted, loopVars>>

\* vid.play() resolves and tf.setBackend is called (lines 79-83)
PlayStarted ==
    /\ initPc = "play"
    /\ status' = "Preparing TensorFlow.js..."
    /\ initPc' = "setBackend"
    /\ UNCHANGED <<tried, stream, srcObject, modelRef, apiRef,
                   renderer, sceneRef, cameraRef, resizeListener>>
    /\ UNCHANGED <<clock, gazeVars, otherVars, isMounted, loopVars>>

\* tf.setBackend resolves and tf.ready is called (lines 83-84)
BackendSet ==
    /\ initPc = "setBackend"
    /\ initPc' = "ready"
    /\ UNCHANGED <<status, tried, stream, srcObject, modelRef,
                   apiRef, renderer, sceneRef, cameraRef, resizeListener>>
    /\ UNCHANGED <<clock, gazeVars, otherVars, isMounted, loopVars>>

\* the option the model loading starts with (lines 89 and 110)
FirstOption(detectorApi) == IF detectorApi THEN "mediapipe" ELSE "legacy"

\* tf.ready resolves and the first model option is requested (lines 84-119);
\* detectorApi: typeof faceLandmarksDetection.createDetector === "function"
BackendReady(detectorApi) ==
    /\ initPc = "ready"
    /\ status' = "Loading face model..."
    /\ tried' = <<FirstOption(detectorApi)>>
    /\ initPc' = "loadModel"
    /\ UNCHANGED <<stream, srcObject, modelRef, apiRef,
                   renderer, sceneRef, cameraRef, resizeListener>>
    /\ UNCHANGED <<clock, gazeVars, otherVars, isMounted, loopVars>>

\* an awaited step before the model loading rejects: the camera request,
\* vid.play(), tf.setBackend or tf.ready (lines 71-84)
InitStepFails ==
    /\ initPc \in {"getUserMedia", "play", "setBackend", "ready"}
    /\ InitCatch
    /\ UNCHANGED <<tried, stream, srcObject, modelRef, apiRef,
                   renderer, sceneRef, cameraRef, resizeListener>>
    /\ UNCHANGED <<clock, gazeVars, otherVars, isMounted, loopVars>>

\* apiRef.current for the option that loaded (lines 100, 108, 119)
ApiOf(option) ==
    IF option = "mediapipe" THEN "detector_mediapipe"
    ELSE IF option = "tfjs" THEN "detector_tfjs" ELSE "package"

\* mutant: init() does not look at isMounted after the model has loaded
FinishInit_Unchecked(glOk) ==
    IF ~glOk
    THEN /\ InitCatch
         /\ UNCHANGED <<renderer, sceneRef, cameraRef, resizeListener, loopPc,
                        ticks, inFlight>>
    ELSE /\ renderer' = "live"
         /\ sceneRef' = TRUE
         /\ cameraRef' = TRUE
         /\ status' = "Running..."
         /\ loopPc' = "detecting"
         /\ ticks' = ticks + 1
         /\ inFlight' = inFlight + 1
         /\ resizeListener' = TRUE
         /\ initPc' = "done"

\* lines 122-129: setupThree (glOk: the WebGL renderer can be created),
\* the first call of loop(), the resize listener
FinishInit(glOk) ==
    IF ~isMounted
    THEN /\ initPc' = "returned"
         /\ UNCHANGED <<status, renderer, sceneRef, cameraRef, resizeListener,
                        loopPc, ticks, inFlight>>
    ELSE IF ~glOk
    THEN /\ InitCatch
         /\ UNCHANGED <<renderer, sceneRef, cameraRef, resizeListener, loopPc,
                        ticks, inFlight>>
    ELSE /\ renderer' = "live"
         /\ sceneRef' = TRUE
         /\ cameraRef' = TRUE
         /\ status' = "Running..."
         /\ loopPc' = "detecting"
         /\ ticks' = ticks + 1
         /\ inFlight' = inFlight + 1
         /\ resizeListener' = TRUE
         /\ initPc' = "done"

\* the model option in flight resolves (lines 93-100, 103-108, 112-119)
ModelLoaded(glOk) ==
    /\ initPc = "loadModel"
    /\ modelRef' = TRUE
    /\ apiRef' = ApiOf(tried[Len(tried)])
    /\ FinishInit(glOk)
    /\ sampledInFlight' = FALSE
    /\ UNCHANGED <<tried, stream, srcObject>>
    /\ UNCHANGED <<clock, gazeVars, calibVars, knnVars,
                   tdpVars, appVars, isMounted>>
    /\ UNCHANGED <<facesCount, pointsRef, linesRef, lineFrameCounter, frames,
                   lastTime, lastFpsUpdate, fps, drew, rebuilt, allocs,
                   updates, lastCount,
                   prevCount>>

\* mutant: every failed option falls back to the next of the three
FallbackAfter_Chain(option) ==
    IF option = "mediapipe" THEN "tfjs"
    ELSE IF option = "tfjs" THEN "legacy" ELSE "none"

\* the option attempted after `option` has failed: only the try of lines
\* 91-100 has a catch (lines 101-109) of its own
FallbackAfter(option) == IF option = "mediapipe" THEN "tfjs" ELSE "none"

\* the model option in flight rejects
ModelFailed ==
    /\ initPc = "loadModel"
    /\ IF FallbackAfter(tried[Len(tried)]) # "none"
       THEN /\ tried' = Append(tried, FallbackAfter(tried[Len(tried)]))
            /\ UNCHANGED <<initPc, status>>
       ELSE /\ InitCatch
            /\ UNCHANGED tried
    /\ UNCHANGED <<stream, srcObject, modelRef, apiRef,
                   renderer, sceneRef, cameraRef, resizeListener>>
    /\ UNCHANGED <<clock, gazeVars, otherVars, isMounted, loopVars>>

(* ------------------------- render effect: loop ------------------------- *)

\* Math.round(a / b) for a >= 0 and b > 0
RoundDiv(a, b) == (2 * a + b) \div (2 * b)

\* mutant: the report is made at 500 ms already
FpsDue_AtLeast(t, last) == t - last >= 500

\* the FPS report is due (line 367)
FpsDue(t, last) == t - last > 500

\* mutant: the line buffer is rebuilt on every frame
LinesDue_EveryFrame(counter) == TRUE

\* the throttle test of line 303 on the value lineFrameCounter has
LinesDue(counter) == counter % LINES_UPDATE_EVERY_N_FRAMES = 0

\* mutant: the throttle counter advances on every tick
CounterAfter_EveryTick(counter, hasPts) == counter + 1

\* lineFrameCounter after a run of loop(): line 303 is reached only with a
\* face that has points (lines 297 and 300)
CounterAfter(counter, hasPts) == IF hasPts THEN counter + 1 ELSE counter

\* the detection call resolves with res and loop() runs to its end (lines
\* 296-374).  res.nfaces is faces.length; res.pts is the first face mapped
\* by extract2DPoints and toDisplayPoints (lines 298-299).
LoopResumes(res) ==
    LET hasPts    == res.nfaces > 0 /\ res.pts # << >>
        recompute == hasPts /\ LinesDue(lineFrameCounter)
        \* sceneRef.current.add(lines) on a null scene (line 335)
        throws    == recompute /\ ~linesRef.set /\ ~sceneRef
        \* updateGeometry(pts) gets past its scene guard (lines 248-249)
        reaches   == hasPts /\ sceneRef
        geometry  == UpdateGeometry(pointsRef, res.pts)
    IN
    /\ loopPc = "detecting"
    /\ facesCount' = res.nfaces
    /\ lineFrameCounter' = CounterAfter(lineFrameCounter, hasPts)
    /\ pointsRef' = IF reaches THEN geometry.ref ELSE pointsRef
    /\ allocs' = IF reaches THEN geometry.allocs ELSE 0
    /\ updates' = IF reaches THEN updates + 1 ELSE updates
    /\ lastCount' = IF reaches THEN Len(res.pts) ELSE lastCount
    /\ prevCount' = IF reaches THEN lastCount ELSE prevCount
    /\ rebuilt' = (recompute /\ ~throws)
    /\ inFlight' = inFlight - 1
    /\ IF throws
       THEN /\ loopPc' = "rejected"
            /\ UNCHANGED <<linesRef, frames, lastTime, lastFpsUpdate, fps, drew>>
       ELSE /\ linesRef' = IF recompute
                           THEN Ref(LinePositions(res.pts, EdgesOf(res.pts)))
                           ELSE linesRef
            /\ drew' = (renderer # "none" /\ sceneRef /\ cameraRef)
            /\ IF FpsDue(clock, lastFpsUpdate)
               THEN /\ fps' = RoundDiv((frames + 1) * 1000, clock - lastTime)
                    /\ frames' = 0
                    /\ lastTime' = clock
                    /\ lastFpsUpdate' = clock
               ELSE /\ frames' = frames + 1
                    /\ UNCHANGED <<fps, lastTime, lastFpsUpdate>>
            /\ loopPc' = "scheduled"
    /\ UNCHANGED <<clock, gazeVars, otherVars, isMounted, initVars, ticks>>

\* the detection call rejects: the await of line 295 throws and nothing
\* in loop() catches it
DetectorThrows ==
    /\ loopPc = "detecting"
    /\ loopPc' = "rejected"
    /\ inFlight' = inFlight - 1
    /\ UNCHANGED <<ticks, facesCount, pointsRef, linesRef, lineFrameCounter,
                   frames, lastTime, lastFpsUpdate, fps, drew, rebuilt, allocs,
                   updates, lastCount,
                   prevCount>>
    /\ UNCHANGED <<clock, gazeVars, otherVars, isMounted, initVars>>

\* mutant: the next frame is requested before the detection call is awaited,
\* so it can fire while the call is in flight
FrameFires_BeforeSettled ==
    /\ loopPc \in {"scheduled", "detecting"}
    /\ ticks < MaxTicks
    /\ loopPc' = "detecting"
    /\ ticks' = ticks + 1
    /\ inFlight' = inFlight + 1
    /\ rebuilt' = FALSE
    /\ allocs' = 0
    /\ sampledInFlight' = FALSE
    /\ UNCHANGED <<facesCount, pointsRef, linesRef, lineFrameCounter, frames,
                   lastTime, lastFpsUpdate, fps, drew, updates, lastCount,
                   prevCount>>
    /\ UNCHANGED <<clock, gazeVars, calibVars, knnVars,
                   tdpVars, appVars, isMounted,
                   initVars>>

\* the animation frame requested at line 374 fires: loop() is entered and
\* calls estimateFaces (line 295)
FrameFires ==
    /\ loopPc = "scheduled"
    /\ ticks < MaxTicks
    /\ loopPc' = "detecting"
    /\ ticks' = ticks + 1
    /\ inFlight' = inFlight + 1
    /\ rebuilt' = FALSE
    /\ allocs' = 0
    /\ sampledInFlight' = FALSE
    /\ UNCHANGED <<facesCount, pointsRef, linesRef, lineFrameCounter, frames,
                   lastTime, lastFpsUpdate, fps, drew, updates, lastCount,
                   prevCount>>
    /\ UNCHANGED <<clock, gazeVars, calibVars, knnVars,
                   tdpVars, appVars, isMounted,
                   initVars>>

(* ------------------------ render effect: cleanup ----------------------- *)

\* mutant: the cleanup leaves sceneRef.current set
Teardown_KeepsScene ==
    /\ isMounted
    /\ isMounted' = FALSE
    /\ loopPc' = IF loopPc = "scheduled" THEN "cancelled" ELSE loopPc
    /\ resizeListener' = FALSE
    /\ IF srcObject
       THEN stream' = "stopped" /\ srcObject' = FALSE
       ELSE UNCHANGED <<stream, srcObject>>
    /\ renderer' = IF renderer = "live" THEN "disposed" ELSE renderer
    /\ pointsRef' = NullRef
    /\ linesRef' = NullRef
    /\ UNCHANGED sceneRef
    /\ cameraRef' = FALSE
    /\ UNCHANGED <<initPc, status, tried, modelRef, apiRef>>
    /\ UNCHANGED <<ticks, facesCount, lineFrameCounter, frames, lastTime,
                   lastFpsUpdate, fps, drew, loopHist>>
    /\ UNCHANGED <<clock, gazeVars, otherVars>>

\* the cleanup of the render effect (lines 379-409); videoRef.current is
\* taken to be the video element still
Teardown ==
    /\ isMounted
    /\ isMounted' = FALSE
    /\ loopPc' = IF loopPc = "scheduled" THEN "cancelled" ELSE loopPc
    /\ resizeListener' = FALSE
    /\ IF srcObject
       THEN stream' = "stopped" /\ srcObject' = FALSE
       ELSE UNCHANGED <<stream, srcObject>>
    /\ renderer' = IF renderer = "live" THEN "disposed" ELSE renderer
    /\ pointsRef' = NullRef
    /\ linesRef' = NullRef
    /\ sceneRef' = FALSE
    /\ cameraRef' = FALSE
    /\ UNCHANGED <<initPc, status, tried, modelRef, apiRef>>
    /\ UNCHANGED <<ticks, facesCount, lineFrameCounter, frames, lastTime,
                   lastFpsUpdate, fps, drew, loopHist>>
    /\ UNCHANGED <<clock, gazeVars, otherVars>>

(* ----------------------------- calibration ---------------------------- *)

\* const wg = webgazerRef.current || window.webgazer is not undefined
HasPredictor == webgazerRef \/ windowWebgazer

\* mutant: the counts of the previous calibration are kept
startCalibration_KeepsCounts ==
    /\ calibrating' = TRUE
    /\ UNCHANGED calibrationCounts
    /\ IF HasPredictor
       THEN wgTrained' = FALSE /\ wgMouse' = TRUE /\ wgShowPoints' = TRUE
       ELSE UNCHANGED <<wgTrained, wgMouse, wgShowPoints>>

\* startCalibration (lines 422-431)
startCalibration ==
    /\ calibrating' = TRUE
    /\ calibrationCounts' = [idx \in CALIB_POINTS |-> 0]
    /\ IF HasPredictor
       THEN wgTrained' = FALSE /\ wgMouse' = TRUE /\ wgShowPoints' = TRUE
       ELSE UNCHANGED <<wgTrained, wgMouse, wgShowPoints>>

\* mutant: the stop leaves the mouse-event collection on
stopCalibration_KeepsMouse ==
    /\ calibrating' = FALSE
    /\ IF HasPredictor
       THEN UNCHANGED wgMouse /\ wgShowPoints' = showGazeDot
       ELSE UNCHANGED <<wgMouse, wgShowPoints>>

\* stopCalibration (lines 432-439)
stopCalibration ==
    /\ calibrating' = FALSE
    /\ IF HasPredictor
       THEN wgMouse' = FALSE /\ wgShowPoints' = showGazeDot
       ELSE UNCHANGED <<wgMouse, wgShowPoints>>

\* the Calibrate button, rendered while not calibrating (lines 580-583)
CalibrateClicked ==
    /\ ~cancelled
    /\ ~calibrating
    /\ startCalibration
    /\ UNCHANGED <<clock, gazePc, cancelled, windowWebgazer, webgazerRef,
                   wgListener, wgRunning, lastOnScreenAt, offScreen, gazeXY,
                   now, trail>>
    /\ UNCHANGED <<renderVars, showGazeDot, knnVars, sampledInFlight,
                   tdpVars, appVars>>

\* the End Calib button, rendered while calibrating (lines 584-587)
EndCalibClicked ==
    /\ ~cancelled
    /\ calibrating
    /\ stopCalibration
    /\ UNCHANGED <<clock, gazePc, cancelled, windowWebgazer, webgazerRef,
                   wgListener, wgRunning, lastOnScreenAt, offScreen, gazeXY,
                   now, trail>>
    /\ UNCHANGED <<renderVars, calibrationCounts, showGazeDot, wgTrained,
                   knnVars, sampledInFlight, tdpVars, appVars>>

\* the Show / Hide Gaze Dot button (lines 577-579) and the effect its
\* state change triggers (lines 413-418)
GazeDotToggled ==
    /\ ~cancelled
    /\ showGazeDot' = ~showGazeDot
    /\ IF HasPredictor
       THEN wgShowPoints' = showGazeDot'
       ELSE UNCHANGED wgShowPoints
    /\ UNCHANGED <<clock, gazePc, cancelled, windowWebgazer, webgazerRef,
                   wgListener, wgRunning, wgMouse, lastOnScreenAt, offScreen,
                   gazeXY, now, trail>>
    /\ UNCHANGED <<renderVars, calibrating, calibrationCounts, wgTrained,
                   knnVars, sampledInFlight, tdpVars, appVars>>

\* mutant: the cap is one above the quota
CountAfterClick_CapsAbove(count) ==
    IF count < CALIBRATION_PER_POINT THEN count + 1
    ELSE CALIBRATION_PER_POINT + 1

\* mutant: a click always adds one
CountAfterClick_Unbounded(count) == count + 1

\* Math.min(CALIBRATION_PER_POINT, (next[idx] || 0) + 1) (line 653)
CountAfterClick(count) ==
    IF count + 1 < CALIBRATION_PER_POINT THEN count + 1
    ELSE CALIBRATION_PER_POINT

\* mutant: the calibration ends only above the quota
AllAtQuota_Above(next) == \A idx \in CALIB_POINTS : next[idx] > CALIBRATION_PER_POINT

\* mutant: the calibration never ends by itself
AllAtQuota_Never(next) == FALSE

\* next.every((c) => c >= CALIBRATION_PER_POINT) (line 655)
AllAtQuota(next) == \A idx \in CALIB_POINTS : next[idx] >= CALIBRATION_PER_POINT

\* the points the user has begun to click and not brought to the quota
Begun(counts) ==
    {idx \in CALIB_POINTS : counts[idx] > 0 /\ counts[idx] < CALIBRATION_PER_POINT}

\* the onClick of calibration point idx, rendered while calibrating (lines
\* 650-660); the user begins a point while fewer than MaxBegun are begun.
\* The click is a mouse event: the predictor takes a training sample from
\* it if its mouse listeners are installed (addMouseEventListeners, line 428)
PointClicked(idx) ==
    LET next == [calibrationCounts EXCEPT ![idx] = CountAfterClick(@)]
    IN  /\ ~cancelled
        /\ calibrating
        /\ calibrationCounts[idx] > 0
               \/ Cardinality(Begun(calibrationCounts)) < MaxBegun
        /\ calibrationCounts' = next
        /\ wgTrained' = (wgTrained \/ wgMouse)
        /\ IF AllAtQuota(next)
           THEN stopCalibration
           ELSE UNCHANGED <<calibrating, wgMouse, wgShowPoints>>
        /\ UNCHANGED <<clock, gazePc, cancelled, windowWebgazer, webgazerRef,
                       wgListener, wgRunning, lastOnScreenAt, offScreen,
                       gazeXY, now, trail>>
        /\ UNCHANGED <<renderVars, showGazeDot, knnVars, sampledInFlight,
                   tdpVars, appVars>>

(* ------------------------------ inputs --------------------------------- *)

\* steps by which the clock advances between events
Deltas == {50, 51, 100}

\* window.innerWidth/innerHeight and documentElement.clientWidth/Height
Viewports ==
    { [innerWidth |-> 800, clientWidth |-> 800,
       innerHeight |-> 600, clientHeight |-> 600],
      [innerWidth |-> 0, clientWidth |-> 800,
       innerHeight |-> 0, clientHeight |-> 600],
      [innerWidth |-> 0, clientWidth |-> 0,
       innerHeight |-> 0, clientHeight |-> 0] }

\* samples the predictor delivers: no prediction, a prediction without a
\* numeric x, a NaN prediction, a point in the viewport, a point in the
\* margin left of it, and a point far outside
Samples ==
    { NullData,
      Data(Undefined, Num(10 * Sub)),
      Data(NaNValue, NaNValue),
      Data(Num(10 * Sub + 1), Num(20 * Sub + 1)),
      Data(Num(-margin * Sub), Num(0)),
      Data(Num(5000 * Sub), Num(20 * Sub)) }

\* values a clock that is not monotonic may return
AnyClockValues == {0, 100, 350}

(* -------------------------- specifications ----------------------------- *)

Tick == \E d \in Deltas : ClockAdvance(d, MaxClock)

Load == \E wgOk \in BOOLEAN : ScriptLoaded(wgOk)

\* a sample processed while performance.now() is the model's clock
Sample == \E data \in Samples, vp \in Viewports :
              GazeListener(data, vp, clock, clock)

\* a sample processed with arbitrary values of performance.now()
SampleAnyClock == \E data \in Samples, vp \in Viewports :
                      \E r1 \in AnyClockValues, r2 \in AnyClockValues :
                          GazeListener(data, vp, r1, r2)

NextGaze == Tick \/ Load \/ ScriptFailed \/ Sample \/ GazeCleanup

\* the gaze effect alone, with a monotonic clock
SpecGaze == Init /\ [][NextGaze]_vars

NextGazeAnyClock == Load \/ ScriptFailed \/ SampleAnyClock \/ GazeCleanup

\* the gaze effect alone, the clock returning arbitrary values
SpecGazeAnyClock == Init /\ [][NextGazeAnyClock]_vars

\* steps of the clock between two samples at the edge of the margin
BoundsDeltas == {100}

\* a viewport of 800 x 600
BoundsViewports ==
    { [innerWidth |-> 800, clientWidth |-> 800,
       innerHeight |-> 600, clientHeight |-> 600] }

\* coordinates on the four bounds of the margin of a viewport of size px,
\* and 1/Sub pixel beyond each
BoundsCoordinates(px) ==
    { -margin * Sub - 1, -margin * Sub, (px + margin) * Sub,
      (px + margin) * Sub + 1 }

\* samples with x and y on or just beyond the bounds of that viewport, and a
\* numeric sample that is NaN in x
BoundsSamples ==
    { Data(Num(x), Num(y)) :
          x \in BoundsCoordinates(800), y \in BoundsCoordinates(600) }
        \cup {Data(NaNValue, Num(0))}

BoundsTick == \E d \in BoundsDeltas : ClockAdvance(d, MaxClock)

BoundsSample == \E data \in BoundsSamples, vp \in BoundsViewports :
                    GazeListener(data, vp, clock, clock)

NextGazeBounds == BoundsTick \/ Load \/ BoundsSample

\* the gaze effect with samples at the edge of the on-screen margin
SpecGazeBounds == Init /\ [][NextGazeBounds]_vars

\* steps by which the clock advances between two frames
FrameDeltas == {250, 251}

\* the first face of a detection, mapped to display points: a square, the
\* square with a raised fifth point, a single point, a face without points
PointSets ==
    { <<<<0, 0, 0>>, <<10, 0, 0>>, <<10, 10, 0>>, <<0, 10, 0>>>>,
      <<<<0, 0, 0>>, <<10, 0, 0>>, <<10, 10, 0>>, <<0, 10, 0>>, <<5, 5, 3>>>>,
      <<<<7, 9, 2>>>>,
      << >> }

\* what a detection call resolves with
Detections ==
    {[nfaces |-> 0, pts |-> << >>]}
        \cup {[nfaces |-> 1, pts |-> p] : p \in PointSets}
        \cup {[nfaces |-> 2, pts |-> <<<<7, 9, 2>>>>]}

FrameTick == \E d \in FrameDeltas : ClockAdvance(d, MaxRenderClock)

ModelRequested == \E detectorApi \in BOOLEAN : BackendReady(detectorApi)

ModelLoads == \E glOk \in BOOLEAN : ModelLoaded(glOk)

Detected == \E res \in Detections : LoopResumes(res)

NextRender ==
    \/ FrameTick
    \/ CameraGranted
    \/ MetadataLoaded
    \/ PlayStarted
    \/ BackendSet
    \/ ModelRequested
    \/ InitStepFails
    \/ ModelLoads
    \/ ModelFailed
    \/ Detected
    \/ DetectorThrows
    \/ FrameFires
    \/ Teardown

\* the render effect alone
SpecRender == Init /\ [][NextRender]_vars

AnyPointClicked == \E idx \in CALIB_POINTS : PointClicked(idx)

NextCalib ==
    \/ Load
    \/ CalibrateClicked
    \/ AnyPointClicked
    \/ EndCalibClicked

\* the calibration, the predictor present from the start, loading while
\* the user calibrates, or absent
SpecCalib == Init /\ [][NextCalib]_vars

NextClicks == CalibrateClicked \/ AnyPointClicked \/ EndCalibClicked

\* the calibration while loadScript() stays pending: the predictor object
\* is there from the start (window.webgazer) or not at all
SpecClicks == Init /\ [][NextClicks]_vars

NextDot == NextClicks \/ GazeDotToggled

\* the calibration and the gaze-dot toggle while loadScript() stays pending
SpecDot == Init /\ [][NextDot]_vars

(* ------------------------ root App (1169-1225) ------------------------- *)

\* the App keeps its own state; FaceMesh3D is left as mounted while the
\* pages are walked through

\* the most sessions a user starts
MaxSessions == 2

\* the names LoginPage passes on, trimmed and not empty (lines 757-759)
UserNames == {"ann", "bo"}

\* the configs PreSessionForm passes to onStart (lines 825-830); the goal
\* and the duration go with the subject
SessionConfigs ==
    [subject : {"Untitled session", "algebra"},
     wantsBackgroundAudio : BOOLEAN]

\* const sessionConfig (line 1181): the config with its start; serial stands
\* for the time stamp startedAt
Started(config, serial) ==
    [subject |-> config.subject,
     wantsBackgroundAudio |-> config.wantsBackgroundAudio,
     startedAt |-> serial]

\* const completedSession (line 1192): the running config with its end
Completed(config) ==
    [subject |-> config.subject,
     wantsBackgroundAudio |-> config.wantsBackgroundAudio,
     startedAt |-> config.startedAt,
     ended |-> TRUE]

\* handleLogin (line 1178), called by LoginPage
handleLogin(name) ==
    /\ view = "login"
    /\ userName' = name
    /\ view' = "home"
    /\ UNCHANGED <<currentConfig, pastSessions, backgroundMuted,
                   lastCompleted, surveyResults>>
    /\ UNCHANGED <<clock, gazeVars, renderVars, calibVars, knnVars,
                   sampledInFlight, tdpVars>>

\* the setView calls of the routing (lines 1209-1211, 1213, 1221, 1223):
\* HomePage opens a page, and the page's Back returns to home
Navigate(to) ==
    /\ \/ view = "home" /\ to \in {"pre", "profile", "surveyResults"}
       \/ view \in {"pre", "profile", "surveyResults"} /\ to = "home"
    /\ view' = to
    /\ UNCHANGED <<userName, currentConfig, pastSessions, backgroundMuted,
                   lastCompleted, surveyResults>>
    /\ UNCHANGED <<clock, gazeVars, renderVars, calibVars, knnVars,
                   sampledInFlight, tdpVars>>

\* handlePreSessionStart (lines 1180-1185), called by PreSessionForm
handlePreSessionStart(config) ==
    /\ view = "pre"
    /\ Len(pastSessions) < MaxSessions
    /\ currentConfig' = Started(config, Len(pastSessions) + 1)
    /\ backgroundMuted' = ~config.wantsBackgroundAudio
    /\ view' = "session"
    /\ UNCHANGED <<userName, pastSessions, lastCompleted, surveyResults>>
    /\ UNCHANGED <<clock, gazeVars, renderVars, calibVars, knnVars,
                   sampledInFlight, tdpVars>>

\* onToggleMute (line 1218), called by SessionPage
ToggleMute ==
    /\ view = "session"
    /\ backgroundMuted' = ~backgroundMuted
    /\ UNCHANGED <<view, userName, currentConfig, pastSessions,
                   lastCompleted, surveyResults>>
    /\ UNCHANGED <<clock, gazeVars, renderVars, calibVars, knnVars,
                   sampledInFlight, tdpVars>>

\* handleEndSession (lines 1187-1197), called by SessionPage
handleEndSession ==
    /\ view = "session"
    /\ IF currentConfig = NullConfig
       THEN UNCHANGED <<view, currentConfig, pastSessions, lastCompleted>>
       ELSE /\ pastSessions' = Append(pastSessions, Completed(currentConfig))
            /\ lastCompleted' = Completed(currentConfig)
            /\ currentConfig' = NullConfig
            /\ view' = "survey"
    /\ UNCHANGED <<userName, backgroundMuted, surveyResults>>
    /\ UNCHANGED <<clock, gazeVars, renderVars, calibVars, knnVars,
                   sampledInFlight, tdpVars>>

\* mutant: the survey page stays open after a submit
handleSurveySubmit_StaysOpen(response) ==
    /\ view = "survey"
    /\ surveyResults' = Append(surveyResults, response)
    /\ UNCHANGED <<view, userName, currentConfig, pastSessions,
                   backgroundMuted, lastCompleted>>
    /\ UNCHANGED <<clock, gazeVars, renderVars, calibVars, knnVars,
                   sampledInFlight, tdpVars>>

\* handleSurveySubmit (lines 1199-1202), called by SurveyPage
handleSurveySubmit(response) ==
    /\ view = "survey"
    /\ surveyResults' = Append(surveyResults, response)
    /\ view' = "home"
    /\ UNCHANGED <<userName, currentConfig, pastSessions, backgroundMuted,
                   lastCompleted>>
    /\ UNCHANGED <<clock, gazeVars, renderVars, calibVars, knnVars,
                   sampledInFlight, tdpVars>>

\* the answers SurveyPage adds to the session (line 1044)
SurveyAnswers == {"keep", "remove"}

Login == \E name \in UserNames : handleLogin(name)

AnyNavigate ==
    \E to \in {"home", "pre", "profile", "surveyResults"} : Navigate(to)

PreSessionStart == \E config \in SessionConfigs : handlePreSessionStart(config)

SurveySubmit ==
    \E answer \in SurveyAnswers :
        handleSurveySubmit([session |-> lastCompleted,
                            meshPreference |-> answer])

NextApp ==
    \/ Login
    \/ AnyNavigate
    \/ PreSessionStart
    \/ ToggleMute
    \/ handleEndSession
    \/ SurveySubmit

\* the pages of the root App
SpecApp == Init /\ [][NextApp]_vars

(* the neighbour search on its own *)

\* the points the lists of display points are made of: the corners of a
\* square, a raised point above its centre, a point in line with one side
KnnPoints ==
    {<<0, 0, 0>>, <<10, 0, 0>>, <<10, 10, 0>>, <<0, 10, 0>>, <<5, 5, 3>>,
     <<20, 0, 0>>}

\* the longest list of display points drawn
MaxPoints == 4

\* latest clock value while both effects run
MaxBothClock == 502

\* const pts (line 299): every list of 1..MaxPoints of these points, equal
\* points included
KnnInputs == UNION {[1..n -> KnnPoints] : n \in 1..MaxPoints}

\* the search is about to run on some non-empty list of display points
InitKnn == Mounted /\ knnPts \in KnnInputs /\ tdpArgs = NoArgs

\* lines 304-330 run on pts
SearchNeighbours ==
    /\ ~knnDone
    /\ knnDone' = TRUE
    /\ knnBest' = [i \in 1..Len(knnPts) |-> BestOf(knnPts, i)]
    /\ knnEdges' = EdgesOf(knnPts)
    /\ UNCHANGED <<clock, gazeVars, renderVars, calibVars, knnPts,
                   sampledInFlight, tdpVars, appVars>>

\* the neighbour search applied to any list of display points
SpecKnn == InitKnn /\ [][SearchNeighbours]_vars

\* the lists of raw points passed to toDisplayPoints
DisplayPointLists ==
    { << >>,
      <<<<0, 0, 0>>>>,
      <<<<320, 240, 5>>, <<100, 50, 0>>>>,
      <<<<640, 480, -3>>, <<1, 2, 3>>, <<10, 0, 0>>>> }

\* what the video element reports: no metadata yet, or the size of its frames
VideoSizes == {<<0, 0>>, <<640, 480>>, <<320, 240>>, <<1280, 720>>}

\* the calls of toDisplayPoints: the refs set or not, the container laid
\* out or not
DisplayInputs ==
    { [points |-> pts, container |-> c, video |-> v,
       rectWidth |-> rw, rectHeight |-> rh, clientWidth |-> cl,
       videoWidth |-> size[1], videoHeight |-> size[2]] :
          pts \in DisplayPointLists, c \in BOOLEAN, v \in BOOLEAN,
          rw \in {0, 640, 800}, rh \in {0, 460, 480, 500},
          cl \in {0, 320},
          size \in VideoSizes }

InitDisplay == Mounted /\ knnPts = << >> /\ tdpArgs \in DisplayInputs

\* toDisplayPoints(points) runs (lines 210-225): it writes to nothing
ToDisplay ==
    /\ ~tdpResult.called
    /\ tdpResult' = toDisplayPoints(tdpArgs)
    /\ UNCHANGED tdpArgs
    /\ UNCHANGED <<clock, gazeVars, renderVars, calibVars, knnVars,
                   sampledInFlight, appVars>>

\* toDisplayPoints applied to any call
SpecDisplay == InitDisplay /\ [][ToDisplay]_vars

\* a face of n display points, no two of them equal
Cloud(n) == [i \in 1..n |-> <<10 * i, (i * i) % 7, i % 3>>]

\* what a detection call resolves with while the point count varies: no
\* face, a face without points, faces of 3, 10 and 12 points
GeometryDetections ==
    {[nfaces |-> 0, pts |-> << >>], [nfaces |-> 1, pts |-> << >>]}
        \cup {[nfaces |-> 1, pts |-> Cloud(n)] : n \in {3, 10, 12}}

GeometryDetected == \E res \in GeometryDetections : LoopResumes(res)

NextGeometry ==
    \/ CameraGranted
    \/ MetadataLoaded
    \/ PlayStarted
    \/ BackendSet
    \/ ModelRequested
    \/ ModelLoads
    \/ GeometryDetected
    \/ FrameFires
    \/ Teardown

\* the render effect with every step of init() succeeding and the clock
\* standing still, the detector returning faces of different sizes
SpecGeometry == Init /\ [][NextGeometry]_vars

\* steps of the clock while both effects run
BothDeltas == {251}

\* a sample in the viewport and one far outside it, the viewport 800 x 600
BothSamples ==
    { Data(Num(10 * Sub + 1), Num(20 * Sub + 1)),
      Data(Num(5000 * Sub), Num(20 * Sub)) }

BothViewport == [innerWidth |-> 800, clientWidth |-> 800,
                 innerHeight |-> 600, clientHeight |-> 600]

\* no face, or a face of four points
BothDetections ==
    { [nfaces |-> 0, pts |-> << >>],
      [nfaces |-> 1,
       pts |-> <<<<0, 0, 0>>, <<10, 0, 0>>, <<10, 10, 0>>, <<0, 10, 0>>>>] }

BothTick == \E d \in BothDeltas : ClockAdvance(d, MaxBothClock)

BothSample == \E data \in BothSamples :
                  GazeListener(data, BothViewport, clock, clock)

BothDetected == \E res \in BothDetections : LoopResumes(res)

NextBoth ==
    \/ BothTick
    \/ Load
    \/ ScriptFailed
    \/ BothSample
    \/ CameraGranted
    \/ MetadataLoaded
    \/ PlayStarted
    \/ BackendSet
    \/ ModelRequested
    \/ ModelLoads
    \/ BothDetected
    \/ FrameFires

\* the gaze effect and the render effect of one mounted component side by
\* side: the predictor script loading or failing, samples arriving, init()
\* running to its end and the loop ticking
SpecBoth == Init /\ [][NextBoth]_vars

(* ======================================================================= *)
(* Properties of the gaze effect                                           *)
(* ======================================================================= *)

\* the listener is installed and the effect has not been cleaned up
GazeLive == gazePc = "listening" /\ ~cancelled

\* the positions of the in-viewport samples in the history
InsideIdx == {i \in 1..Len(trail) : trail[i].kind = "inside"}

MaxOf(S) == CHOOSE m \in S : \A k \in S : k <= m

\* a step in which the listener processes an invalid sample
InvalidSampleStep ==
    /\ ~cancelled
    /\ \E data \in Samples, vp \in Viewports :
           ~Valid(data) /\ GazeListener(data, vp, clock, clock)

\* a step in which the listener processes a sample that is not a valid
\* in-viewport one
NotInsideSampleStep ==
    /\ ~cancelled
    /\ \E data \in Samples, vp \in Viewports :
           Kind(data, vp) # "inside" /\ GazeListener(data, vp, clock, clock)

(* ------------------------------- C1 ------------------------------------ *)

\* C1 as stated: in every state in which the listener is live and an
\* in-viewport sample has been processed, offScreen is true iff the time
\* elapsed since that sample exceeds the 250 ms delay (also between two
\* sample arrivals).
C1_OffScreenTracksElapsedTime ==
    (GazeLive /\ InsideIdx # {}) =>
        (offScreen <=> (clock - trail[MaxOf(InsideIdx)].at > OFFSCREEN_DELAY_MS))

\* C1 amended: offScreen is false until the first sample is processed; from
\* then on it is true iff, at the moment the latest sample was processed,
\* more than 250 ms had elapsed since the last valid in-viewport sample (since
\* lastOnScreenAt when that sample is older than the history).
C1_OffScreenAsOfLatestSample ==
    IF trail = << >>
    THEN offScreen = FALSE
    ELSE LET latest == trail[Len(trail)].at
             since  == IF InsideIdx # {} THEN trail[MaxOf(InsideIdx)].at
                       ELSE lastOnScreenAt
         IN  offScreen <=> (latest - since > OFFSCREEN_DELAY_MS)

\* the flag is stale: more than 250 ms after the last in-viewport sample no
\* further sample has arrived and offScreen is still false
C1_Witness ==
    /\ GazeLive
    /\ Len(trail) = 1
    /\ trail[1].kind = "inside"
    /\ clock - trail[1].at > OFFSCREEN_DELAY_MS
    /\ ~offScreen

(* ------------------------------- C2 ------------------------------------ *)

\* C2: processing an invalid sample (null data, or x or y not of type
\* number) never changes lastOnScreenAt.
C2_InvalidKeepsLastOnScreenAt ==
    [][InvalidSampleStep => lastOnScreenAt' = lastOnScreenAt]_vars

\* an invalid sample has been processed later than lastOnScreenAt
C2_Witness ==
    /\ GazeLive
    /\ trail # << >>
    /\ trail[Len(trail)].kind = "invalid"
    /\ trail[Len(trail)].at > lastOnScreenAt
    /\ gazeXY = NullXY

(* ------------------------------- C3 ------------------------------------ *)

\* C3 as stated: processing an invalid sample leaves the gaze state
\* untouched except that gazeXY becomes null; in particular offScreen after
\* the sample equals offScreen before it.
C3_InvalidKeepsOffScreen ==
    [][InvalidSampleStep =>
          /\ gazeXY' = NullXY
          /\ lastOnScreenAt' = lastOnScreenAt
          /\ offScreen' = offScreen]_vars

\* C3 amended: processing an invalid sample sets gazeXY to null, leaves
\* lastOnScreenAt and the predictor untouched and recomputes offScreen as
\* (now - lastOnScreenAt > 250): a true offScreen stays true, a false one
\* becomes true when more than 250 ms have passed since lastOnScreenAt.
C3_InvalidRecomputesOffScreen ==
    [][InvalidSampleStep =>
          /\ gazeXY' = NullXY
          /\ lastOnScreenAt' = lastOnScreenAt
          /\ UNCHANGED <<gazePc, cancelled, windowWebgazer, webgazerRef,
                         wgListener, wgRunning, wgMouse, wgShowPoints>>
          /\ offScreen' <=> (clock - lastOnScreenAt > OFFSCREEN_DELAY_MS)
          /\ offScreen => offScreen']_vars

\* an invalid sample has turned offScreen from false to true
C3_Witness ==
    /\ GazeLive
    /\ Len(trail) >= 2
    /\ trail[Len(trail)].kind = "invalid"
    /\ trail[Len(trail)].off
    /\ ~trail[Len(trail) - 1].off
    /\ gazeXY = NullXY

(* ------------------------------- C4 ------------------------------------ *)

\* scenario C: the three latest samples are an in-viewport one at t0 and
\* out-of-viewport ones at t0 + 100 and t0 + 200
ScenarioC ==
    /\ GazeLive
    /\ Len(trail) = 3
    /\ trail[1].kind = "inside"
    /\ trail[2].kind = "outside" /\ trail[2].at = trail[1].at + 100
    /\ trail[3].kind = "outside" /\ trail[3].at = trail[1].at + 200

\* C4 as stated: after scenario C offScreen is false at t0 + 200 and true
\* from t0 + 251 on, whether or not a further sample arrives.
C4_ScenarioTrueFrom251 ==
    ScenarioC =>
        /\ ~trail[3].off
        /\ (clock >= trail[1].at + 251) => offScreen

\* C4 amended: after scenario C offScreen is false at t0 + 200 and stays
\* false until the next sample is processed; it becomes true when a sample
\* that is not a valid in-viewport one is processed at t0 + 251 or later.
C4_ScenarioTrueAtNextSample ==
    [][/\ ScenarioC => (~trail[3].off /\ ~offScreen)
       /\ ScenarioC' => (~trail'[3].off /\ ~offScreen')
       /\ (ScenarioC /\ NotInsideSampleStep /\ clock >= trail[1].at + 251)
              => offScreen']_vars

\* scenario C has happened and the clock has passed t0 + 251 with no
\* further sample
C4_Witness == ScenarioC /\ clock >= trail[1].at + 251

(* ------------------------------- C5 ------------------------------------ *)

\* C5: an in-viewport sample followed by an out-of-viewport one and another
\* in-viewport one, all processed within 250 ms of the first, leaves
\* offScreen false after each of the three.
C5_BriefExcursionKeepsOnScreen ==
    ( /\ Len(trail) = 3
      /\ trail[1].kind = "inside"
      /\ trail[2].kind = "outside"
      /\ trail[3].kind = "inside"
      /\ trail[3].at - trail[1].at <= OFFSCREEN_DELAY_MS )
    => (~trail[1].off /\ ~trail[2].off /\ ~trail[3].off /\
        (GazeLive => ~offScreen))

\* the excursion has happened, the three samples at different times
C5_Witness ==
    /\ GazeLive
    /\ Len(trail) = 3
    /\ trail[1].kind = "inside"
    /\ trail[2].kind = "outside"
    /\ trail[3].kind = "inside"
    /\ trail[1].at < trail[2].at
    /\ trail[2].at < trail[3].at
    /\ trail[3].at - trail[1].at = OFFSCREEN_DELAY_MS

(* ------------------------------- C6 ------------------------------------ *)

\* C6: right after any sample is processed with clock value now, offScreen
\* equals (now - lastOnScreenAt > 250), whatever values the clock returns
\* and whatever offScreen was before.
C6_OffScreenIsDelta ==
    (trail # << >>) =>
        (offScreen <=> (now - lastOnScreenAt > OFFSCREEN_DELAY_MS))

\* the clock went backwards: the latest sample was processed at a clock
\* value below lastOnScreenAt, after offScreen had been true
C6_Witness ==
    /\ Len(trail) >= 2
    /\ now < lastOnScreenAt
    /\ trail[Len(trail) - 1].off
    /\ ~offScreen

(* ======================================================================= *)
(* Properties of the render effect                                         *)
(* ======================================================================= *)

(* ------------------------------- C7 ------------------------------------ *)

\* C7: after teardown no further detection call is issued (loop() is not
\* entered again) and the loop does not reschedule itself, also when a
\* detection call was in flight at teardown and resolves afterwards.
C7_NoDetectionAfterTeardown ==
    [][~isMounted => (ticks' = ticks /\ loopPc' # "scheduled")]_vars

(* ------------------------------- C8 ------------------------------------ *)

\* C8: the camera stream that init() has acquired is released on every exit
\* path: once the component is unmounted and init() has ended by an early
\* return or in its catch, the stream is not live any more.
C8_StreamReleasedOnEveryExit ==
    (~isMounted /\ initPc \in {"returned", "error"}) => stream # "live"

(* ------------------------------- C9 ------------------------------------ *)

\* C9: when the detection call of a tick of the running loop rejects, the
\* frame counts as one with zero faces and the loop schedules its next tick.
C9_DetectorThrowIsZeroFaces ==
    [][(isMounted /\ DetectorThrows)
          => (facesCount' = 0 /\ loopPc' = "scheduled")]_vars

(* ------------------------------- C10 ----------------------------------- *)

\* C10 as stated: the model loading ends in the error state only after the
\* three options mediapipe, tfjs and legacy have been attempted in this
\* order and have all failed.
C10_ErrorAfterThreeOptions ==
    (initPc = "error" /\ tried # << >> /\ ~modelRef)
        => tried = <<"mediapipe", "tfjs", "legacy">>

\* C10 amended: when the detector interface exists, the mediapipe runtime
\* is attempted first and, if it fails, the tfjs runtime; the model loading
\* ends in the error state after these two have failed.  The legacy package
\* interface is attempted only when the detector interface does not exist,
\* as the only option, and its failure ends in the error state at once.
C10_FallbackChain ==
    /\ tried \in {<< >>, <<"mediapipe">>, <<"mediapipe", "tfjs">>, <<"legacy">>}
    /\ (initPc = "error" /\ tried # << >> /\ ~modelRef)
           => tried \in {<<"mediapipe", "tfjs">>, <<"legacy">>}
    /\ modelRef => apiRef = ApiOf(tried[Len(tried)])

\* both runtimes of the detector interface have failed and init() has ended
\* in the error state without the legacy interface being attempted
C10_Witness ==
    /\ initPc = "error"
    /\ status = "Error"
    /\ ~modelRef
    /\ tried = <<"mediapipe", "tfjs">>


(* ------------------------------- C11 ----------------------------------- *)

\* C11: at most one detection call is in flight at any time, and a call is
\* in flight exactly while loop() is suspended at its await: the next call
\* is issued only once the previous one has settled and the run of loop()
\* it resumed (buffer update and draw) has ended.
C11_OneDetectionInFlight ==
    /\ inFlight \in {0, 1}
    /\ (inFlight = 1) <=> (loopPc = "detecting")

\* a later call is in flight, after a run of loop() that updated the point
\* buffer and drew
C11_Witness ==
    /\ inFlight = 1
    /\ ticks >= 2
    /\ pointsRef.set
    /\ drew


(* ------------------------------- C12 ----------------------------------- *)

\* C12: after every buffer update with a non-empty point list, the position
\* array of the point cloud has length exactly 3 times the number of points
\* passed to it.
C12_ArrayLengthIsThreeTimesCount ==
    [][updates' > updates
          => /\ lastCount' > 0
             /\ pointsRef'.set
             /\ Len(pointsRef'.array) = 3 * lastCount']_vars

\* an update with fewer points than the one before it has happened
C12_Witness ==
    /\ pointsRef.set
    /\ lastCount = 3
    /\ Len(pointsRef.array) = 9
    /\ allocs = 1
    /\ updates >= 2
    /\ prevCount = 12


(* ------------------------------- C13 ----------------------------------- *)

\* C13: a buffer update allocates a new position array exactly when its
\* point count differs from that of the update before it, and then exactly
\* one; the first update allocates one.  10 points after 10 points allocate
\* none; 12 points after 10 points allocate one, of length 36.
C13_AllocatesIffCountChanges ==
    [][updates' > updates
          => /\ allocs' = (IF lastCount' # lastCount THEN 1 ELSE 0)
             /\ (lastCount = 10 /\ lastCount' = 10) => allocs' = 0
             /\ (lastCount = 10 /\ lastCount' = 12)
                    => (allocs' = 1 /\ Len(pointsRef'.array) = 36)]_vars

\* 12 points have followed 10 points
C13_Witness ==
    /\ updates >= 2
    /\ prevCount = 10
    /\ lastCount = 12
    /\ allocs = 1
    /\ Len(pointsRef.array) = 36

\* 10 points have followed 10 points
C13_WitnessSameCount ==
    /\ updates >= 2
    /\ prevCount = 10
    /\ lastCount = 10
    /\ allocs = 0


(* ------------------------------- C16 ----------------------------------- *)

\* C16 as stated: counting every tick of the loop from the first, a tick
\* that has points rebuilds the line buffer exactly when it is the first,
\* the third, ... (every 2nd) tick.
C16_RebuildOnEveryNthTick ==
    [][(isMounted /\ updates' > updates)
          => (rebuilt' <=> ((ticks - 1) % LINES_UPDATE_EVERY_N_FRAMES = 0))]_vars

\* C16 amended: counting only the ticks that have a face with a non-empty
\* point list, the running loop rebuilds the line buffer on exactly every
\* 2nd of them, the first included; a tick without points does not count.
\* Every other tick keeps the line buffer it found and draws with it.
C16_RebuildOnEveryNthTickWithPoints ==
    [][(isMounted /\ inFlight' < inFlight)
          => /\ rebuilt' <=> ( /\ updates' > updates
                               /\ updates % LINES_UPDATE_EVERY_N_FRAMES = 0 )
             /\ ~rebuilt' => (linesRef' = linesRef /\ drew')]_vars

\* the third tick, the second with points, has reused the line buffer that
\* the second tick built
C16_Witness ==
    /\ isMounted
    /\ loopPc = "scheduled"
    /\ ticks = 3
    /\ updates = 2
    /\ ~rebuilt
    /\ linesRef.set
    /\ drew

(* ------------------------------- C17 ----------------------------------- *)

\* C17: a tick of the running loop on which the detector returns no face
\* leaves the point buffer, the line buffer and the throttle counter as
\* they were, still issues the draw call, and reports a face count of 0.
C17_ZeroFacesKeepsBuffers ==
    [][\A res \in GeometryDetections :
          (isMounted /\ res.nfaces = 0 /\ LoopResumes(res))
              => /\ pointsRef' = pointsRef
                 /\ linesRef' = linesRef
                 /\ lineFrameCounter' = lineFrameCounter
                 /\ drew'
                 /\ facesCount' = 0]_vars

\* a tick without a face has followed a tick that built both buffers and
\* reported one face
C17_Witness ==
    /\ isMounted
    /\ loopPc = "scheduled"
    /\ facesCount = 0
    /\ ticks = 2
    /\ pointsRef.set
    /\ linesRef.set
    /\ lineFrameCounter = 1
    /\ drew


(* ======================================================================= *)
(* Properties of the neighbour search                                      *)
(* ======================================================================= *)

(* ------------------------------- C14 ----------------------------------- *)

\* C14: for a list of at least CONNECT_K + 1 points, every point gets
\* exactly CONNECT_K neighbours, all different and none the point itself;
\* the edge set has between ceil(n * K / 2) and n * K entries, every entry
\* a pair a < b, no pair twice.
C14_KNeighboursAndEdgeBounds ==
    (knnDone /\ Len(knnPts) >= CONNECT_K + 1)
        => /\ \A i \in 1..Len(knnPts) :
                 /\ Len(knnBest[i]) = CONNECT_K
                 /\ \A m \in 1..CONNECT_K :
                        /\ knnBest[i][m][2] \in 1..Len(knnPts)
                        /\ knnBest[i][m][2] # i
                        /\ \A l \in 1..CONNECT_K :
                               l # m => knnBest[i][l][2] # knnBest[i][m][2]
           /\ 2 * Len(knnEdges) >= Len(knnPts) * CONNECT_K
           /\ Len(knnEdges) <= Len(knnPts) * CONNECT_K
           /\ \A k \in 1..Len(knnEdges) :
                 /\ knnEdges[k][1] < knnEdges[k][2]
                 /\ \A l \in 1..Len(knnEdges) :
                        l # k => knnEdges[l] # knnEdges[k]

\* the search has run on four points, two of them equal, and has kept five
\* edges: more than the least number, fewer than the largest
C14_Witness ==
    /\ knnDone
    /\ Len(knnPts) = 4
    /\ \E i, j \in 1..4 : i # j /\ knnPts[i] = knnPts[j]
    /\ Len(knnEdges) = 5

(* ------------------------------- C15 ----------------------------------- *)

\* the corners of the square of side 10 of scenario D, all of equal z
SquareCorners == {<<0, 0, 0>>, <<10, 0, 0>>, <<10, 10, 0>>, <<0, 10, 0>>}

\* C15: for the four corners of a square, in any order, the edge set is
\* exactly the four sides: four edges, each between two corners that are a
\* side length (10) apart, so no diagonal is among them.
C15_SquareGivesItsSides ==
    (knnDone /\ Len(knnPts) = 4 /\ {knnPts[i] : i \in 1..4} = SquareCorners)
        => /\ Len(knnEdges) = 4
           /\ \A k \in 1..4 :
                 Dist2(knnPts[knnEdges[k][1]], knnPts[knnEdges[k][2]]) = 10 * 10

\* the search has run on the corners listed with two opposite corners first
C15_Witness ==
    /\ knnDone
    /\ knnPts = <<<<0, 0, 0>>, <<10, 10, 0>>, <<10, 0, 0>>, <<0, 10, 0>>>>
    /\ knnEdges = <<<<1, 3>>, <<1, 4>>, <<2, 3>>, <<2, 4>>>>


(* ======================================================================= *)
(* Properties of the calibration                                           *)
(* ======================================================================= *)

(* ------------------------------- C18 ----------------------------------- *)

\* a step of startCalibration: nothing else sets calibrating
Starts == ~calibrating /\ calibrating'

\* C18 as stated: startCalibration, from any state, leaves all 9 counts at
\* 0, calibrating true, the predictor without trained data and its
\* mouse-event sample collection enabled.
C18_StartResetsAndEnables ==
    [][Starts
          => /\ \A idx \in CALIB_POINTS : calibrationCounts'[idx] = 0
             /\ calibrating'
             /\ ~wgTrained'
             /\ wgMouse']_vars

\* C18 amended: startCalibration, from any state, leaves all 9 counts at 0
\* and calibrating true; when the predictor object exists at that moment
\* (webgazerRef.current or window.webgazer) it also clears the predictor's
\* trained data and enables its mouse-event sample collection; when it does
\* not, no predictor call is made and the collection stays as it was.
C18_StartResetsAndEnablesIfPresent ==
    [][Starts
          => /\ \A idx \in CALIB_POINTS : calibrationCounts'[idx] = 0
             /\ calibrating'
             /\ HasPredictor => (~wgTrained' /\ wgMouse')
             /\ ~HasPredictor
                    => UNCHANGED <<wgTrained, wgMouse, wgShowPoints>>]_vars

\* a calibration has just been started with the predictor loaded
C18_Witness ==
    /\ calibrating
    /\ \A idx \in CALIB_POINTS : calibrationCounts[idx] = 0
    /\ webgazerRef
    /\ wgMouse
    /\ wgShowPoints
    /\ ~wgTrained

(* ------------------------------- C19 ----------------------------------- *)

\* C19: while calibrating, a click that is counted (only the click of a
\* point changes the counts then) ends the calibration exactly when it
\* brings the last of the 9 points to the quota of 5, that is when it is
\* the 45th counted click; calibrating is false right after that click and
\* the predictor's mouse-event sample collection is disabled, without any
\* stop action.
C19_CompletesAtLastQuota ==
    [][(calibrating /\ calibrationCounts' # calibrationCounts)
          => /\ ~calibrating'
                 <=> \A c \in CALIB_POINTS :
                         calibrationCounts'[c] = CALIBRATION_PER_POINT
             /\ ~calibrating' => ~wgMouse']_vars

\* the calibration has completed with the predictor loaded: every point at
\* the quota, which only the 45th counted click brings about
C19_Witness ==
    /\ \A c \in CALIB_POINTS : calibrationCounts[c] = CALIBRATION_PER_POINT
    /\ ~calibrating
    /\ webgazerRef
    /\ wgTrained
    /\ ~wgMouse

(* ------------------------------- C20 ----------------------------------- *)

\* C20: a click of a point that is at the quota already, while another
\* point is below it, changes nothing: the 9 counts and calibrating are as
\* before, and the calibration is not ended (the predictor's mouse-event
\* collection and point display stay as they were).
C20_SaturatedClickIsNoOp ==
    [][( /\ calibrating
         /\ \E other \in CALIB_POINTS :
                calibrationCounts[other] < CALIBRATION_PER_POINT )
          => \A idx \in CALIB_POINTS :
                 ( /\ calibrationCounts[idx] = CALIBRATION_PER_POINT
                   /\ PointClicked(idx) )
                     => UNCHANGED <<calibrationCounts, calibrating, wgMouse,
                                    wgShowPoints>>]_vars

\* calibrating with one point at the quota and the others not: the state in
\* which the click of C20 is made, and the state after it
C20_Witness ==
    /\ calibrating
    /\ wgMouse
    /\ \E idx \in CALIB_POINTS :
           /\ calibrationCounts[idx] = CALIBRATION_PER_POINT
           /\ \A other \in CALIB_POINTS \ {idx} : calibrationCounts[other] = 0

(* ------------------------------- C21 ----------------------------------- *)

\* a run of loop() reaches its end: the step from the resumed detection to
\* the next scheduled frame (lines 296-374)
TickEnds == loopPc = "detecting" /\ loopPc' = "scheduled"

\* C21 as stated: at the end of a tick, if at least 500 ms have elapsed
\* since the last FPS report, fps becomes round(frames * 1000 / elapsed)
\* and the frame counter is reset to 0; otherwise fps is unchanged and the
\* frame counter accumulates.
C21_ReportsAtLeast500 ==
    [][TickEnds
          => IF clock - lastFpsUpdate >= 500
             THEN /\ fps' = RoundDiv((frames + 1) * 1000, clock - lastTime)
                  /\ frames' = 0
             ELSE /\ fps' = fps
                  /\ frames' = frames + 1]_vars

\* C21, amended: at the end of a tick, if more than 500 ms have elapsed
\* since the last FPS report, fps becomes round(frames * 1000 / elapsed),
\* frames being the ticks ended since that report (this one included) and
\* elapsed the time since it, and the frame counter is reset to 0; at 500 ms
\* or less fps is unchanged and the frame counter accumulates.
C21_ReportsAfterMoreThan500 ==
    [][TickEnds
          => IF clock - lastFpsUpdate > 500
             THEN /\ fps' = RoundDiv((frames + 1) * 1000, clock - lastFpsUpdate)
                  /\ frames' = 0
                  /\ lastFpsUpdate' = clock
             ELSE /\ fps' = fps
                  /\ frames' = frames + 1
                  /\ lastFpsUpdate' = lastFpsUpdate]_vars

\* a report has been made from two ticks 501 ms after the previous one, and
\* a tick exactly 500 ms after it has ended without a report
C21_Witness ==
    /\ fps = RoundDiv(2 * 1000, 501)
    /\ lastFpsUpdate = 501
    /\ clock = 1001
    /\ frames = 1
    /\ loopPc = "scheduled"

(* ------------------------------- C22 ----------------------------------- *)

\* a step of the render loop: loop() is entered, resumes or ends
LoopStep == loopPc' # loopPc \/ ticks' # ticks

\* C22: the render loop and the gaze listener do not wait for each other
\* and do not write each other's state.  While a detection call is pending
\* (for however long) and the listener is live, a gaze sample can be
\* processed, and processing it sets offScreen from the time elapsed since
\* the last on-screen sample and leaves the call pending; the loop's steps
\* are enabled by the loop's own position alone, whether or not any sample
\* has arrived; a step of the loop leaves the gaze and calibration state
\* unchanged; a gaze callback leaves the face count, fps, the geometry
\* buffers and the rest of the render state unchanged.
C22_DomainsDecoupled ==
    /\ []((GazeLive /\ loopPc = "detecting") => ENABLED BothSample)
    /\ []((loopPc = "detecting") => ENABLED BothDetected)
    /\ []((loopPc = "scheduled" /\ ticks < MaxTicks) => ENABLED FrameFires)
    /\ [][ /\ (BothSample /\ GazeLive /\ loopPc = "detecting")
                => /\ now' = clock
                   /\ offScreen' = (clock - lastOnScreenAt' > OFFSCREEN_DELAY_MS)
                   /\ loopPc' = "detecting"
           /\ LoopStep => UNCHANGED <<gazeVars, calibVars>>
           /\ BothSample
                => /\ UNCHANGED <<facesCount, fps, pointsRef, linesRef>>
                   /\ UNCHANGED renderVars ]_vars

\* a detection call is pending, and since it was issued a sample far
\* outside the viewport has been processed and has turned offScreen on
C22_Witness ==
    /\ loopPc = "detecting"
    /\ sampledInFlight
    /\ offScreen
    /\ gazeXY = GazeXYAfter(Data(Num(5000 * Sub), Num(20 * Sub)))
    /\ now = clock

\* the loop has run to MaxTicks ticks with the listener live and no sample
\* processed at all
C22_WitnessNoSample ==
    /\ GazeLive
    /\ trail = << >>
    /\ ticks = MaxTicks
    /\ loopPc = "scheduled"
    /\ facesCount = 1

(* ------------------------------- C23 ----------------------------------- *)

\* C23: once the loading of the gaze predictor has failed, it stays
\* failed, no gaze listener is installed and no sample can be processed,
\* offScreen stays false and the last gaze position stays null; and init()
\* and the loop proceed as with a loaded predictor: in every state, failed
\* or not, each of their steps is enabled by the render effect's own
\* position alone.
C23_PredictorLoadFailure ==
    /\ [](gazePc = "failed"
            => /\ ~wgListener
               /\ ~webgazerRef
               /\ ~offScreen
               /\ gazeXY = NullXY
               /\ trail = << >>
               /\ ~ENABLED BothSample)
    /\ [][gazePc = "failed" => gazePc' = "failed"]_vars
    /\ [](/\ ENABLED CameraGranted <=> initPc = "getUserMedia"
          /\ ENABLED MetadataLoaded <=> (initPc = "metadata" /\ srcObject)
          /\ ENABLED PlayStarted <=> initPc = "play"
          /\ ENABLED BackendSet <=> initPc = "setBackend"
          /\ ENABLED ModelRequested <=> initPc = "ready"
          /\ ENABLED ModelLoads <=> initPc = "loadModel"
          /\ ENABLED BothDetected <=> loopPc = "detecting"
          /\ ENABLED FrameFires <=> (loopPc = "scheduled" /\ ticks < MaxTicks))

\* the predictor failed to load, and init() has completed and the loop has
\* ticked, found a face, drawn it and reported an FPS value
C23_Witness ==
    /\ gazePc = "failed"
    /\ status = "Running..."
    /\ ticks = MaxTicks
    /\ facesCount = 1
    /\ linesRef.set
    /\ fps > 0

(* ------------------------------- C24 ----------------------------------- *)

\* C24: once a step of init() has failed (the camera request, the video
\* start, the backend, the model loading with its fallback, or the creation
\* of the renderer), the status is the error status, loop() has never been
\* entered, no detection call was issued, no point or line geometry
\* exists, and the status stays the error status from then on, also after
\* the teardown.
C24_InitFailureIsTerminal ==
    /\ [](initPc = "error"
            => /\ status = "Error"
               /\ loopPc = "idle"
               /\ ticks = 0
               /\ inFlight = 0
               /\ pointsRef = NullRef
               /\ linesRef = NullRef
               /\ ~resizeListener)
    /\ [][initPc = "error" => (initPc' = "error" /\ status' = "Error")]_vars

\* both model options that have a fallback failed, the status is the error
\* status, time has passed and the component has been torn down since
C24_Witness ==
    /\ initPc = "error"
    /\ status = "Error"
    /\ tried = <<"mediapipe", "tfjs">>
    /\ clock > 0
    /\ ~isMounted
    /\ ticks = 0

(* ------------------------------- C25 ----------------------------------- *)

\* the fraction f has the value of the integer v
IsInteger(f, v) == f.n = v * f.d

\* C25: a call of toDisplayPoints leaves the list passed as it was.  A call
\* with an empty list returns that list itself.  A call that maps a
\* non-empty list while the video reports a width or height of 0 (no
\* metadata yet) takes the video to have the display's dimensions: the
\* scale is 1, both offsets are 0, and every point returned has the x and y
\* of the point passed.
C25_NoMetadataIsIdentity ==
    [][(~tdpResult.called /\ tdpResult'.called)
          => /\ tdpArgs'.points = tdpArgs.points
             /\ tdpArgs.points = << >>
                  => (tdpResult'.same /\ tdpResult'.pts = << >>)
             /\ ( /\ ~tdpResult'.same
                  /\ (tdpArgs.videoWidth = 0 \/ tdpArgs.videoHeight = 0) )
                  => /\ ScaleOf(tdpArgs).n = ScaleOf(tdpArgs).d
                     /\ OffsetX(tdpArgs).n = 0
                     /\ OffsetY(tdpArgs).n = 0
                     /\ Len(tdpResult'.pts) = Len(tdpArgs.points)
                     /\ \A k \in 1..Len(tdpArgs.points) :
                            /\ IsInteger(tdpResult'.pts[k][1],
                                         tdpArgs.points[k][1])
                            /\ IsInteger(tdpResult'.pts[k][2],
                                         tdpArgs.points[k][2])]_vars

\* three points have been mapped in an 800 x 500 container while the video
\* reported no size, and the first of them came back at its own x and y
C25_Witness ==
    /\ tdpResult.called
    /\ ~tdpResult.same
    /\ tdpArgs.videoWidth = 0
    /\ tdpArgs.rectWidth = 800
    /\ tdpArgs.rectHeight = 500
    /\ Len(tdpResult.pts) = 3
    /\ IsInteger(tdpResult.pts[1][1], 640)
    /\ IsInteger(tdpResult.pts[1][2], 480)

(* ------------------------------- C26 ----------------------------------- *)

\* neighbour j of point i comes before neighbour l: it is nearer, or as near
\* and scanned earlier
Nearer(pts, i, j, l) ==
    \/ Dist2(pts[i], pts[j]) < Dist2(pts[i], pts[l])
    \/ Dist2(pts[i], pts[j]) = Dist2(pts[i], pts[l]) /\ j < l

\* the indices kept in best for point i
Kept(i) == {knnBest[i][m][2] : m \in 1..Len(knnBest[i])}

\* C26: when the search has run, the list kept for each point i holds
\* CONNECT_K other points (all others if there are fewer), each with its
\* squared 3D distance to i; every point kept is nearer to i than every
\* other point left out, or as near and of lower index (a later point at
\* the distance of the worst kept one has not replaced it); and the list is
\* in ascending order of distance.  The lists searched are closed under
\* taking the points scanned so far, so this holds of the list after every
\* insertion too.
C26_NearestKeptTiesToLowerIndex ==
    knnDone =>
        \A i \in 1..Len(knnPts) :
            /\ Len(knnBest[i]) = IF Len(knnPts) - 1 < CONNECT_K
                                 THEN Len(knnPts) - 1 ELSE CONNECT_K
            /\ Cardinality(Kept(i)) = Len(knnBest[i])
            /\ Kept(i) \subseteq (1..Len(knnPts)) \ {i}
            /\ \A m \in 1..Len(knnBest[i]) :
                   knnBest[i][m][1] = Dist2(knnPts[i], knnPts[knnBest[i][m][2]])
            /\ \A j \in Kept(i) :
                   \A l \in ((1..Len(knnPts)) \ {i}) \ Kept(i) :
                       Nearer(knnPts, i, j, l)
            /\ \A m \in 1..(Len(knnBest[i]) - 1) :
                   knnBest[i][m][1] <= knnBest[i][m + 1][1]

\* the search has run on four points of which the second, third and fourth
\* are equally far from the first: the second and third were kept, in this
\* order, and the fourth was not
C26_Witness ==
    /\ knnDone
    /\ Len(knnPts) = 4
    /\ Dist2(knnPts[1], knnPts[2]) = 100
    /\ Dist2(knnPts[1], knnPts[3]) = 100
    /\ Dist2(knnPts[1], knnPts[4]) = 100
    /\ knnBest[1] = <<<<100, 2>>, <<100, 3>>>>

(* ------------------------------- C27 ----------------------------------- *)

\* the display points a position array of the point buffer was written from
PointsIn(array) ==
    [k \in 1..(Len(array) \div 3) |->
        <<array[3 * k - 2], array[3 * k - 1], (-(array[3 * k])) \div DEPTH_SCALE>>]

\* the edge set of the points pts, as a set of index pairs
EdgeSet(pts) ==
    {EdgeKey(i, BestOf(pts, i)[m][2]) :
        <<i, m>> \in {im \in (1..Len(pts)) \X (1..CONNECT_K) :
                         im[2] <= Len(BestOf(pts, im[1]))}}

\* the six numbers at segment g of a line array
Segment(array, g) == SubSeq(array, 6 * g - 5, 6 * g)

\* the six numbers of the edge e between the points pts
EndPoints(pts, e) ==
    <<pts[e[1]][1], pts[e[1]][2], -(pts[e[1]][3]) * DEPTH_SCALE,
      pts[e[2]][1], pts[e[2]][2], -(pts[e[2]][3]) * DEPTH_SCALE>>

\* C27: a tick that recomputes the edges leaves a line buffer of exactly
\* 6 numbers for each edge of the edge set of that tick's points, whatever
\* the length of the buffer before: every segment of it holds the two end
\* points of an edge of that set, taken from that tick's points, and every
\* edge of the set has its segment.
C27_LineBufferIsSixPerEdge ==
    [][(inFlight' < inFlight /\ rebuilt')
          => LET pts == PointsIn(pointsRef'.array)
                 edges == EdgeSet(pts)
                 segments == 1..(Len(linesRef'.array) \div 6)
             IN  /\ linesRef'.set
                 /\ Len(pts) = lastCount'
                 /\ Len(linesRef'.array) = 6 * Cardinality(edges)
                 /\ {Segment(linesRef'.array, g) : g \in segments}
                        = {EndPoints(pts, e) : e \in edges}]_vars

\* the third buffer update, of a face of three points, has recomputed the
\* edges: the line buffer holds the three edges between them
C27_Witness ==
    /\ rebuilt
    /\ updates = 3
    /\ lastCount = 3
    /\ prevCount = 12
    /\ linesRef.set
    /\ Len(linesRef.array) = 18

(* ------------------------------- C28 ----------------------------------- *)

\* C28: a tick that has a face with points and that the throttle skips
\* leaves the line buffer exactly as it was, whatever number of points it
\* was computed from, and still updates the point buffer: the position
\* array holds this tick's points and only them.
C28_SkippedTickKeepsStaleLines ==
    [][(inFlight' < inFlight /\ updates' > updates /\ ~rebuilt')
          => /\ linesRef' = linesRef
             /\ linesRef.set
             /\ pointsRef'.set
             /\ pointsRef'.array = PositionsOf(Cloud(lastCount'))]_vars

\* the second tick with a face, of three points, was skipped by the
\* throttle: the point buffer holds the three points, the line buffer still
\* the edges between the twelve points of the first tick
C28_Witness ==
    /\ loopPc = "scheduled"
    /\ updates = 2
    /\ ~rebuilt
    /\ lastCount = 3
    /\ prevCount = 12
    /\ pointsRef.array = PositionsOf(Cloud(3))
    /\ linesRef.array = LinePositions(Cloud(12), EdgesOf(Cloud(12)))

(* ------------------------------- C29 ----------------------------------- *)

\* C29: when the live listener processes a valid sample, lastOnScreenAt
\* becomes the time of the sample exactly when -40 <= x <= W + 40 and
\* -40 <= y <= H + 40, each of the four bounds included (W and H the
\* viewport's width and height); a valid sample beyond any of the bounds,
\* or with a NaN coordinate, leaves lastOnScreenAt as it was.
C29_MarginBoundsInclusive ==
    [][\A data \in BoundsSamples, vp \in BoundsViewports :
           ( /\ ~cancelled
             /\ Valid(data)
             /\ GazeListener(data, vp, clock, clock) )
               => lastOnScreenAt'
                    = IF /\ ~data.x.nan
                         /\ ~data.y.nan
                         /\ -40 * Sub <= data.x.v
                         /\ data.x.v <= (ViewportW(vp) + 40) * Sub
                         /\ -40 * Sub <= data.y.v
                         /\ data.y.v <= (ViewportH(vp) + 40) * Sub
                      THEN clock
                      ELSE lastOnScreenAt]_vars

\* the sample at x = W + 40, y = H + 40 of the 800 x 600 viewport has been
\* processed 100 ms after the listener was installed and counted as on
\* screen; 100 ms later a sample 1/Sub pixel further right has not
C29_Witness ==
    /\ GazeLive
    /\ clock = 200
    /\ lastOnScreenAt = 100
    /\ Len(trail) = 2
    /\ trail[1] = [kind |-> "inside", at |-> 100, off |-> FALSE]
    /\ trail[2] = [kind |-> "outside", at |-> 200, off |-> FALSE]
    /\ gazeXY = GazeXYAfter(Data(Num(840 * Sub + 1), Num(640 * Sub)))

(* ------------------------------- C30 ----------------------------------- *)

\* C30: the component moves forward only, from initializing (mounted, init()
\* not complete) to running (init() complete) to stopped (torn down): a
\* stopped component stays stopped and a completed init() stays completed.
\* When the teardown comes before init() has completed, init() never
\* completes afterwards, whichever pending step resolves later: loop() is
\* never entered, no renderer, scene or camera is created, and the status
\* never becomes the running status.
C30_TeardownDuringInitNeverStartsLoop ==
    /\ []((~isMounted /\ initPc # "done")
            => /\ ticks = 0
               /\ loopPc = "idle"
               /\ inFlight = 0
               /\ renderer = "none"
               /\ ~sceneRef
               /\ ~cameraRef
               /\ ~resizeListener
               /\ status # "Running...")
    /\ [][ /\ ~isMounted => ~isMounted'
           /\ initPc = "done" => initPc' = "done"
           /\ (~isMounted /\ initPc # "done") => initPc' # "done" ]_vars

\* the component was torn down while the model was loading; the model has
\* loaded since and init() has returned at its mounted check, without a
\* renderer and without a first tick
C30_Witness ==
    /\ ~isMounted
    /\ initPc = "returned"
    /\ modelRef
    /\ stream = "stopped"
    /\ renderer = "none"
    /\ ticks = 0

(* ------------------------------- C31 ----------------------------------- *)

\* C31: in every reachable state each of the 9 calibration counts is an
\* integer from 0 to CALIBRATION_PER_POINT (5), whatever starts, stops and
\* point clicks have been made.
C31_CountsWithinQuota ==
    /\ DOMAIN calibrationCounts = CALIB_POINTS
    /\ \A idx \in CALIB_POINTS :
           /\ calibrationCounts[idx] \in Int
           /\ calibrationCounts[idx] >= 0
           /\ calibrationCounts[idx] <= 5

\* while calibrating with the predictor trained, one point stands at the
\* quota and another has been clicked three times
C31_Witness ==
    /\ calibrating
    /\ wgTrained
    /\ \E idx, other \in CALIB_POINTS :
           /\ calibrationCounts[idx] = CALIBRATION_PER_POINT
           /\ calibrationCounts[other] = 3

(* ------------------------------- C32 ----------------------------------- *)

\* C32: an explicit stop while calibrating with some point below the quota
\* sets calibrating to false, leaves the predictor's mouse-event sample
\* collection disabled and leaves the 9 counts as they were; while not
\* calibrating the counts change only by the next start, which sets them
\* all to 0.
C32_ExplicitStopKeepsCounts ==
    [][ /\ ( /\ calibrating
             /\ \E idx \in CALIB_POINTS :
                    calibrationCounts[idx] < CALIBRATION_PER_POINT
             /\ EndCalibClicked )
          => /\ ~calibrating'
             /\ ~wgMouse'
             /\ calibrationCounts' = calibrationCounts
        /\ (~calibrating /\ calibrationCounts' # calibrationCounts)
          => /\ calibrating'
             /\ \A idx \in CALIB_POINTS : calibrationCounts'[idx] = 0 ]_vars

\* the calibration was stopped by hand with the predictor loaded, the first
\* point clicked three times and the others not at all
C32_Witness ==
    /\ ~calibrating
    /\ webgazerRef
    /\ wgTrained
    /\ ~wgMouse
    /\ calibrationCounts[1] = 3
    /\ \A idx \in CALIB_POINTS \ {1} : calibrationCounts[idx] = 0

(* ------------------------------- C35 ----------------------------------- *)

\* C35: whenever calibrating is true, at least one of the 9 counts is below
\* the quota: no sequence of starts, stops and clicks reaches a state that
\* is calibrating with every point at the quota.
C35_CalibratingHasPointBelowQuota ==
    calibrating
        => \E idx \in CALIB_POINTS :
               calibrationCounts[idx] < CALIBRATION_PER_POINT

\* calibrating with eight points at the quota and the last one click short
\* of it
C35_Witness ==
    /\ calibrating
    /\ wgMouse
    /\ \E last \in CALIB_POINTS :
           /\ calibrationCounts[last] = CALIBRATION_PER_POINT - 1
           /\ \A idx \in CALIB_POINTS \ {last} :
                  calibrationCounts[idx] = CALIBRATION_PER_POINT

(* ------------------------------- C33 ----------------------------------- *)

\* toDisplayPoints has mapped a non-empty list in this step
MapsPoints == ~tdpResult.called /\ tdpResult'.called /\ ~tdpResult'.same

\* the points passed at the corners (0, 0) and (vw, vh) of the source frame
\* came back at (dx, dy) and (cw - dx, ch - dy)
CornersMapped ==
    \A k \in 1..Len(tdpArgs.points) :
        /\ (tdpArgs.points[k][1] = 0 /\ tdpArgs.points[k][2] = 0)
             => /\ tdpResult'.pts[k][1] = OffsetX(tdpArgs)
                /\ tdpResult'.pts[k][2] = OffsetY(tdpArgs)
        /\ ( /\ tdpArgs.points[k][1] = VideoW(tdpArgs)
             /\ tdpArgs.points[k][2] = VideoH(tdpArgs) )
             => /\ tdpResult'.pts[k][1].d = OffsetX(tdpArgs).d
                /\ tdpResult'.pts[k][1].n
                     = DisplayW(tdpArgs) * OffsetX(tdpArgs).d
                         - OffsetX(tdpArgs).n
                /\ tdpResult'.pts[k][2].d = OffsetY(tdpArgs).d
                /\ tdpResult'.pts[k][2].n
                     = DisplayH(tdpArgs) * OffsetY(tdpArgs).d
                         - OffsetY(tdpArgs).n

\* the round trip v * (c / v) ends within c * 2^-52 of c
WithinRounding(c, v) ==
    LET rt == RoundTrip(c, v)
        size == IF rt.m < 0 THEN -rt.m ELSE rt.m
    IN  IF rt.e >= 52 THEN size <= c * Pow2(rt.e - 52)
        ELSE size * Pow2(52 - rt.e) <= c

\* C33 as stated: whenever toDisplayPoints maps a list, the corners (0, 0)
\* and (vw, vh) of the source frame go to (dx, dy) and (cw - dx, ch - dy),
\* and the dx and dy computed are both at most 0 and one of them is 0.
C33_CoverOffsetsExact ==
    [][MapsPoints
          => /\ CornersMapped
             /\ OffsetXSign(tdpArgs) <= 0
             /\ OffsetYSign(tdpArgs) <= 0
             /\ (OffsetXSign(tdpArgs) = 0 \/ OffsetYSign(tdpArgs) = 0)]_vars

\* C33, amended: whenever toDisplayPoints maps a list, the corners (0, 0)
\* and (vw, vh) of the source frame go to (dx, dy) and (cw - dx, ch - dy);
\* the real values of dx and dy are both at most 0 and one of them is 0;
\* as computed in double precision, the offset of a dimension the scale is
\* not the quotient of is negative, and the offset of the dimension it is
\* the quotient of is minus half of what the round trip v * (c / v) leaves,
\* of either sign and at most c * 2^-53 in size.
C33_CoverOffsetsUpToRounding ==
    [][MapsPoints
          => /\ CornersMapped
             /\ OffsetX(tdpArgs).n <= 0
             /\ OffsetY(tdpArgs).n <= 0
             /\ (OffsetX(tdpArgs).n = 0 \/ OffsetY(tdpArgs).n = 0)
             /\ ScaleIsX(tdpArgs) \/ ScaleIsY(tdpArgs)
             /\ ~ScaleIsX(tdpArgs) => OffsetXSign(tdpArgs) < 0
             /\ ~ScaleIsY(tdpArgs) => OffsetYSign(tdpArgs) < 0
             /\ ScaleIsX(tdpArgs)
                  => WithinRounding(DisplayW(tdpArgs), VideoW(tdpArgs))
             /\ ScaleIsY(tdpArgs)
                  => WithinRounding(DisplayH(tdpArgs), VideoH(tdpArgs))]_vars

\* three points, one at the corner (640, 480) of a 640 x 480 frame, have
\* been mapped in a 640 x 500 container: the scale is 500 / 480, the
\* product 480 * s is 500 + 2^-44, and neither dx nor dy is 0
C33_Witness ==
    /\ tdpResult.called
    /\ ~tdpResult.same
    /\ Len(tdpResult.pts) = 3
    /\ tdpArgs.rectWidth = 640
    /\ tdpArgs.rectHeight = 500
    /\ tdpArgs.videoWidth = 640
    /\ tdpArgs.videoHeight = 480
    /\ RoundTrip(500, 480) = [m |-> 512, e |-> 53]
    /\ OffsetXSign(tdpArgs) = -1
    /\ OffsetYSign(tdpArgs) = -1
    /\ tdpResult.pts[1][2].n = 500 * tdpResult.pts[1][2].d

\* a point has been mapped from a 1280 x 720 frame in an 800 x 460
\* container: the product 720 * s is 460 - 2^-44 and dy is above 0, so the
\* mapped frame ends above the container's lower edge
C33_WitnessUncovered ==
    /\ tdpResult.called
    /\ ~tdpResult.same
    /\ tdpArgs.rectWidth = 800
    /\ tdpArgs.rectHeight = 460
    /\ tdpArgs.videoWidth = 1280
    /\ tdpArgs.videoHeight = 720
    /\ RoundTrip(460, 720) = [m |-> -1024, e |-> 54]
    /\ OffsetXSign(tdpArgs) = -1
    /\ OffsetYSign(tdpArgs) = 1

(* ------------------------------- C34 ----------------------------------- *)

\* the then-callback registers the gaze listener in this step
Registers == gazePc = "loading" /\ gazePc' = "listening"

\* the listener processes a valid in-viewport sample in this step
InsideSampleStep ==
    /\ trail' # trail
    /\ trail'[Len(trail')].kind = "inside"

\* C34: lastOnScreenAt is written by the registration of the listener and
\* by the processing of a valid in-viewport sample only, each time with the
\* time of that event, so it is the later of the two; offScreen is false
\* from the registration until the first sample is processed; and whenever
\* offScreen is true, a sample has been processed and at the moment the
\* latest one was, more than 250 ms had passed since lastOnScreenAt.
C34_OffScreenOnlyAfterDelay ==
    /\ [][ /\ Registers => (lastOnScreenAt' = clock /\ ~offScreen')
           /\ InsideSampleStep
                => lastOnScreenAt' = trail'[Len(trail')].at
           /\ lastOnScreenAt' # lastOnScreenAt
                => (Registers \/ InsideSampleStep) ]_vars
    /\ [](trail = << >> => ~offScreen)
    /\ [](offScreen
            => /\ gazePc = "listening"
               /\ lastOnScreenAt >= 0
               /\ now = trail[Len(trail)].at
               /\ now - lastOnScreenAt > OFFSCREEN_DELAY_MS)

\* the listener was registered at time 0 and the first sample, not an
\* in-viewport one, was processed 251 ms later: offScreen is true
C34_Witness ==
    /\ GazeLive
    /\ offScreen
    /\ lastOnScreenAt = 0
    /\ Len(trail) = 1
    /\ trail[1].kind # "inside"
    /\ trail[1].at = 251

(* ------------------------------- C36 ----------------------------------- *)

\* C36: while a calibration started with the predictor present is running,
\* the predictor's prediction points are shown, whatever the user has done
\* with the Show / Hide Gaze Dot button since the start.
C36_PointsShownWhileCalibrating ==
    (calibrating /\ HasPredictor) => wgShowPoints

\* the user has hidden the gaze dot during a calibration: the prediction
\* points are off while a point has 3 of its 5 clicks
C36_HiddenWhileCalibrating ==
    /\ calibrating
    /\ HasPredictor
    /\ wgMouse
    /\ ~showGazeDot
    /\ ~wgShowPoints
    /\ \E idx \in CALIB_POINTS : calibrationCounts[idx] = 3

(* ------------------------------- C37 ----------------------------------- *)

\* C37: once the cleanup of the gaze effect has run, no step changes
\* offScreen, the gaze position, lastOnScreenAt or the predictor: a sample
\* the predictor still delivers is dropped, and a script that finishes
\* loading afterwards gets no listener and is not started.
C37_NothingAfterGazeCleanup ==
    /\ [][cancelled
            => UNCHANGED <<offScreen, gazeXY, lastOnScreenAt, now, trail,
                           webgazerRef, wgListener, wgRunning, wgMouse,
                           wgShowPoints>>]_vars
    /\ [](cancelled => (~wgListener /\ ~wgRunning))

\* after the cleanup the predictor has delivered one more sample, at a
\* time when performance.now() returned 350: the latest sample processed
\* is still the one of time 100 and offScreen is still false
C37_Witness ==
    /\ cancelled
    /\ gazePc = "listening"
    /\ clock = 350
    /\ now = 100
    /\ lastOnScreenAt = 0
    /\ gazeXY # NullXY
    /\ ~offScreen

\* the script has finished loading after the cleanup: window.webgazer is
\* there, and it has no listener and is not running
C37_WitnessLateLoad ==
    /\ cancelled
    /\ gazePc = "returned"
    /\ windowWebgazer
    /\ ~webgazerRef
    /\ ~wgListener
    /\ ~wgRunning

(* ------------------------------- C38 ----------------------------------- *)

\* C38: once the cleanup of the render effect has run, pointsRef.current
\* and linesRef.current are null in every state; a detection call that
\* resolves afterwards updates no buffer, allocates none, builds no lines,
\* and the tick it belongs to, if it runs to its end, draws nothing.
C38_HandlesStayNullAfterTeardown ==
    /\ [](~isMounted => (pointsRef = NullRef /\ linesRef = NullRef))
    /\ [][(~isMounted /\ inFlight' < inFlight)
            => /\ ~rebuilt'
               /\ allocs' = 0
               /\ updates' = updates
               /\ TickEnds => ~drew']_vars

\* the second tick was suspended in detection when the cleanup ran and has
\* resolved with a face since: the tick ran to its end and scheduled the
\* next one, both handles are null and nothing was drawn
C38_Witness ==
    /\ ~isMounted
    /\ loopPc = "scheduled"
    /\ facesCount = 1
    /\ lineFrameCounter = 2
    /\ updates = 1
    /\ pointsRef = NullRef
    /\ linesRef = NullRef
    /\ ~drew

\* the first tick was suspended in detection when the cleanup ran and has
\* resolved with a face since: adding the lines to the null scene threw
C38_WitnessRejected ==
    /\ ~isMounted
    /\ loopPc = "rejected"
    /\ facesCount = 1
    /\ updates = 0
    /\ pointsRef = NullRef
    /\ linesRef = NullRef

(* ------------------------------- C39 ----------------------------------- *)

\* C39: before the cleanup of the render effect, whenever the point cloud
\* exists the line segments exist too.  The tick that creates the point
\* cloud finds the throttle counter at 0 and builds the lines, for the
\* counter advances, by one, only when a detection call resolves with a
\* face that has points.
C39_PointsImplyLines ==
    /\ [](isMounted /\ pointsRef.set => linesRef.set)
    /\ [][(isMounted /\ ~pointsRef.set /\ pointsRef'.set)
            => /\ lineFrameCounter = 0
               /\ TickEnds
               /\ rebuilt'
               /\ linesRef'.set]_vars
    /\ [][lineFrameCounter' # lineFrameCounter
            => /\ lineFrameCounter' = lineFrameCounter + 1
               /\ inFlight' < inFlight
               /\ facesCount' > 0
               /\ isMounted => updates' = updates + 1]_vars

\* two ticks found no face with points and the third found one: it was the
\* first to advance the counter, and it created both objects
C39_Witness ==
    /\ isMounted
    /\ loopPc = "scheduled"
    /\ ticks = 3
    /\ updates = 1
    /\ lineFrameCounter = 1
    /\ rebuilt
    /\ pointsRef.set
    /\ linesRef.set

(* ======================================================================= *)
(* Properties of the root App                                              *)
(* ======================================================================= *)

(* ------------------------------- C40 ----------------------------------- *)

\* C40: the view is "session" only while currentConfig is not null; every
\* step that leaves the session view is an End Session that appends exactly
\* one entry, the session that was running, to pastSessions, clears
\* currentConfig and opens the survey; and there are never more survey
\* results than past sessions.
C40_EndSessionRecordsOnce ==
    /\ [](view = "session" => currentConfig # NullConfig)
    /\ [][(view = "session" /\ view' # "session")
            => /\ pastSessions' = Append(pastSessions, Completed(currentConfig))
               /\ currentConfig' = NullConfig
               /\ view' = "survey"
               /\ surveyResults' = surveyResults]_vars
    /\ [][(view = "session" /\ view' = "session")
            => pastSessions' = pastSessions]_vars
    /\ [](Len(surveyResults) <= Len(pastSessions))

\* two sessions have been ended and each one's survey submitted: the user
\* is back on the home page with two past sessions and two survey results
C40_Witness ==
    /\ view = "home"
    /\ currentConfig = NullConfig
    /\ Len(pastSessions) = 2
    /\ Len(surveyResults) = 2
    /\ pastSessions[2].startedAt = 2
    /\ surveyResults[2].session = pastSessions[2]

====
